---- MODULE Spec2Model ----
(***************************************************************************)
(* A model of the MoySklad Telegram bot's reporting engine                 *)
(* (src/moysklad_api.py), its subscriber store (src/database.py), its      *)
(* credential vault (src/security.py) and its scheduled batch dispatcher   *)
(* (src/scheduler.py).                                                     *)
(*                                                                         *)
(* Money is kept in kopecks: the source divides every upstream sum by 100  *)
(* to get rubles, so a ruble amount is a rational with denominator 100 and *)
(* the model stores its numerator.  Dates 'YYYY-MM-DD' are compared as     *)
(* strings by the source, which is the order of the calendar; the model    *)
(* numbers the days.                                                       *)
(***************************************************************************)
EXTENDS Integers, Sequences, FiniteSets, TLC

VARIABLES
    users_tbl,        \* table users: telegram_id -> [api_token_encrypted, is_active]
    user_settings,    \* table user_settings: telegram_id -> notification_enabled
    request_logs,     \* table request_logs, as the set of <<telegram_id, request_type>>
    instances,        \* APScheduler: job id -> number of running instances of the job
    pc,               \* job id -> where the job's coroutine stands
    users,            \* job id -> the list read by get_users_with_notifications
    idx,              \* job id -> position of the for loop in users
    success_count,    \* job id -> success_count
    error_count,      \* job id -> error_count
    api,              \* job id -> the local api (the client instance)
    report,           \* job id -> the local report
    outbox,           \* job id -> messages bot.send_message delivered in this run
    visited,          \* job id -> telegram ids the loop has taken up, in order
    slept,            \* job id -> asyncio.sleep ran since the last delivered message
    skipped,          \* job id -> a firing was refused while the job was running
    optout,           \* job id -> users switched off when the job fired, not on since
    env,              \* what the environment may do to a run: "any" or "calm"
    window,           \* report engine: what the upstream holds for the request
    result,           \* report engine: what the operation returned
    phase,            \* report engine: "ask" before the call, "got" after
    futures,          \* quick report: branch -> state and result of its future
    submitted,        \* quick report: how many branches executor.submit has taken
    joined,           \* quick report: how many result() calls have returned
    user_data         \* the chat's context.user_data of the interactive handlers

vars == <<users_tbl, user_settings, request_logs, instances, pc, users, idx,
          success_count, error_count, api, report, outbox, visited, slept,
          skipped, optout, env, window, result, phase, futures, submitted, joined,
          user_data>>

dispatcherVars == <<users_tbl, user_settings, request_logs, instances, pc, users,
                    idx, success_count, error_count, api, report, outbox, visited,
                    slept, skipped, optout, env>>

poolVars == <<futures, submitted, joined>>
engineVars == <<window, result, phase, futures, submitted, joined>>
sessionVars == <<user_data>>

\* Python's None, and an exception leaving a call.
None == [tag |-> "None"]
Raised == [tag |-> "Raised"]

Min(a, b) == IF a < b THEN a ELSE b
Abs(a) == IF a < 0 THEN -a ELSE a
Range(s) == {s[i] : i \in 1..Len(s)}

----------------------------------------------------------------------------
(* Bounds of the model *)

MaxDay == 3          \* days are 1..MaxDay; 0 stands for a record without a date
MaxRows == 2         \* longest upstream window enumerated record by record
MaxOver == 1         \* how far a long window exceeds the page-size limit
MaxItems == 3        \* most line items of a window of the top-product ranking
MaxTop == 2          \* largest limit asked of the top-product ranking
MaxAmount == 2       \* totals compared by calculate_growth are -MaxAmount..MaxAmount
MaxMessages == 4     \* most messages one chat sends to the interactive handlers

----------------------------------------------------------------------------
(* The upstream commerce API, as one endpoint sees it: the fault the call   *)
(* meets ("none" for HTTP 200) and the records the upstream holds for the   *)
(* requested filter, newest first.                                          *)

limit == 1000        \* "limit": 1000 of every list request

Faults == {"none", "401", "400", "500", "timeout", "connection"}

\* requests.get(url, params): the server answers a list request with at most
\* params["limit"] rows and says in meta.size how many records match.  status 0
\* stands for a call that raised; json_ok is whether response.json() parses.
requests_get(endpoint, lim) ==
    IF endpoint.fault \in {"none", "badjson"}
    THEN [status |-> 200, json_ok |-> endpoint.fault = "none",
          size |-> Len(endpoint.recs),
          rows |-> SubSeq(endpoint.recs, 1, Min(Len(endpoint.recs), lim))]
    ELSE IF endpoint.fault \in {"401", "400", "500"}
    THEN [status |-> IF endpoint.fault = "401" THEN 401
                     ELSE IF endpoint.fault = "400" THEN 400 ELSE 500,
          json_ok |-> FALSE, size |-> 0, rows |-> <<>>]
    ELSE [status |-> 0, json_ok |-> FALSE, size |-> 0, rows |-> <<>>]

\* a failed call left to propagate to the caller
PropagateFailure(response) ==
    IF response.status = 200 /\ response.json_ok
    THEN [tag |-> "data", rows |-> response.rows, size |-> response.size]
    ELSE IF response.status \in {401, 400, 500} THEN None
    ELSE Raised

\* _make_request, lines 201-229: the JSON of a 200; None for 401, for 400, for
\* any other status and in every except clause (Timeout, ConnectionError,
\* RequestException, Exception: the last one also takes a body that is not
\* JSON).
Outcome(response) ==
    IF response.status = 200 /\ response.json_ok
    THEN [tag |-> "data", rows |-> response.rows, size |-> response.size]
    ELSE None

\* MoyskladAPI._make_request: one call; the JSON of a 200, None otherwise.
make_request(endpoint, lim) == Outcome(requests_get(endpoint, lim))

\* Sum of F over s[lo..hi], halving the range.
RECURSIVE SumRange(_, _, _, _)
SumRange(s, F(_), lo, hi) ==
    IF lo > hi THEN 0
    ELSE IF lo = hi THEN F(s[lo])
    ELSE LET mid == (lo + hi) \div 2
         IN  SumRange(s, F, lo, mid) + SumRange(s, F, mid + 1, hi)

SumOver(s, F(_)) == SumRange(s, F, 1, Len(s))

RowSum(row) == row.sum
Quantity(pos) == pos
RowQuantity(row) == SumOver(row.positions, Quantity)

\* x / y as the source's float division: a fraction, 0 written 0/1.
Frac(x, y) == [num |-> x, den |-> y]
Zero == Frac(0, 1)

\* get_sales_report, lines 260-276: the local date filter; an order without
\* 'created' is kept.
InPeriod(order, date_from, date_to) ==
    \/ order.created = 0
    \/ date_from <= order.created /\ order.created <= date_to

\* get_sales_report, lines 278-344: the empty report, or the sums over orders.
\* An order whose 'sum' is null raises TypeError (None / 100).
OrdersReport(orders) ==
    IF Len(orders) = 0
    THEN [tag |-> "report", total_sales |-> 0, total_orders |-> 0,
          average_order |-> Zero, products_count |-> 0]
    ELSE IF \E i \in 1..Len(orders) : orders[i].sum_null
    THEN Raised
    ELSE LET WithId(order) == IF order.has_id THEN RowQuantity(order) ELSE 0
         IN  [tag |-> "report",
              total_sales |-> SumOver(orders, RowSum),
              total_orders |-> Len(orders),
              average_order |-> Frac(SumOver(orders, RowSum), Len(orders)),
              products_count |-> SumOver(orders, WithId)]

\* an answer without rows taken for a failed one
NoReportWhenEmpty(data, date_from, date_to) ==
    IF data = None THEN None
    ELSE IF Len(data.rows) = 0 THEN None
    ELSE OrdersReport(SelectSeq(data.rows,
                                LAMBDA order : InPeriod(order, date_from, date_to)))

SalesReportOf(data, date_from, date_to) ==
    IF data = None THEN None
    ELSE OrdersReport(SelectSeq(data.rows,
                                LAMBDA order : InPeriod(order, date_from, date_to)))

\* MoyskladAPI.get_sales_report: the customer orders of [date_from, date_to],
\* by one request.
get_sales_report(endpoint, date_from, date_to) ==
    SalesReportOf(make_request(endpoint, limit), date_from, date_to)

\* a return's amount taken with the sign upstream gave it
SignedReturnSum(return_item) == return_item.sum

\* return_sum = abs(return_item.get('sum', 0) / 100)
ReturnSum(return_item) == Abs(return_item.sum)

\* retail_points after the two loops: store name -> sales minus returns.
StoreNames(retail_demands, returns) ==
    {retail_demands[i].store : i \in 1..Len(retail_demands)}
        \cup {returns[i].store : i \in 1..Len(returns)}

StoreNet(retail_demands, returns, store_name) ==
    LET Sale(d) == IF d.store = store_name THEN d.sum ELSE 0
        Back(r) == IF r.store = store_name THEN ReturnSum(r) ELSE 0
    IN  SumOver(retail_demands, Sale) - SumOver(returns, Back)

\* every store listed, with its share of the gross sales
RetailPointsOfGross(retail_demands, returns, net_sales) ==
    {[name |-> n, sales |-> StoreNet(retail_demands, returns, n),
      share |-> IF SumOver(retail_demands, RowSum) > 0
                THEN Frac(StoreNet(retail_demands, returns, n) * 100,
                          SumOver(retail_demands, RowSum))
                ELSE Zero] :
     n \in StoreNames(retail_demands, returns)}

\* retail_points_list: the stores with positive net sales and their shares.
RetailPoints(retail_demands, returns, net_sales) ==
    {[name |-> n, sales |-> StoreNet(retail_demands, returns, n),
      share |-> IF net_sales > 0
                THEN Frac(StoreNet(retail_demands, returns, n) * 100, net_sales)
                ELSE Zero] :
     n \in {m \in StoreNames(retail_demands, returns) :
              StoreNet(retail_demands, returns, m) > 0}}

AtLeastZero(n) == IF n > 0 THEN n ELSE 0

RetailRecord(retail_demands, returns, total_sales, returns_sum) ==
    [tag |-> "report",
     total_sales |-> total_sales,
     total_orders |-> Len(retail_demands),
     average_order |-> IF Len(retail_demands) > 0
                       THEN Frac(total_sales, Len(retail_demands)) ELSE Zero,
     products_count |-> AtLeastZero(SumOver(retail_demands, RowQuantity)
                                        - SumOver(returns, RowQuantity)),
     retail_points |-> RetailPoints(retail_demands, returns, total_sales - returns_sum),
     returns_count |-> Len(returns),
     returns_sum |-> returns_sum]

\* get_retail_sales_report, lines 419-548: the two loops and the totals.  A
\* row whose 'sum' is null raises TypeError (None / 100).
RetailReduce(retail_demands, returns) ==
    IF \/ \E i \in 1..Len(retail_demands) : retail_demands[i].sum_null
       \/ \E i \in 1..Len(returns) : returns[i].sum_null
    THEN Raised
    ELSE RetailRecord(retail_demands, returns, SumOver(retail_demands, RowSum),
                      SumOver(returns, ReturnSum))

RetailReportOf(data, returns_data) ==
    IF data = None THEN None
    ELSE RetailReduce(data.rows,
                      IF returns_data = None THEN <<>> ELSE returns_data.rows)

\* MoyskladAPI.get_retail_sales_report: the retail demands by one request and
\* the retail returns by a second one; no local date filter.
get_retail_sales_report(demand_endpoint, return_endpoint, date_from, date_to) ==
    RetailReportOf(make_request(demand_endpoint, limit),
                   make_request(return_endpoint, limit))

\* a share taken without looking at the total
UnguardedShare(part, total) == Frac(part * 100, total)

Share(part, total) == IF total > 0 THEN Frac(part * 100, total) ELSE Zero

\* get_combined_sales_report, lines 561-583.  A report object is truthy
\* whatever its numbers: "not report" holds of None alone.
Combine(retail_report, orders_report) ==
    IF retail_report = Raised \/ orders_report = Raised THEN Raised
    ELSE IF retail_report = None \/ orders_report = None THEN None
    ELSE [tag |-> "combined",
          retail |-> retail_report,
          orders |-> orders_report,
          combined_total |-> retail_report.total_sales + orders_report.total_sales,
          combined_orders |-> retail_report.total_orders + orders_report.total_orders,
          retail_share |-> Share(retail_report.total_sales,
                                 retail_report.total_sales + orders_report.total_sales),
          orders_share |-> Share(orders_report.total_sales,
                                 retail_report.total_sales + orders_report.total_sales)]

\* MoyskladAPI.get_combined_sales_report: both reports of the period.
get_combined_sales_report(up, date_from, date_to) ==
    Combine(get_retail_sales_report(up.retail, up.returns, date_from, date_to),
            get_sales_report(up.orders, date_from, date_to))

\* get_period_dates: the calendar is the days 1..MaxDay and today is MaxDay;
\* the current week began the day before, the current month on day 1, and the
\* past periods lie before today.
get_period_dates(period_type) ==
    CASE period_type = "today" -> <<MaxDay, MaxDay>>
      [] period_type = "yesterday" -> <<MaxDay - 1, MaxDay - 1>>
      [] period_type = "week" -> <<MaxDay - 1, MaxDay>>
      [] period_type = "month" -> <<1, MaxDay>>
      [] period_type = "last_week" -> <<1, MaxDay - 1>>
      [] period_type = "last_month" -> <<1, 1>>
      [] OTHER -> <<MaxDay, MaxDay>>

Branches == {"today_retail", "today_orders", "week_retail", "week_orders",
             "month_retail", "month_orders"}

BranchPeriod(branch) ==
    CASE branch \in {"today_retail", "today_orders"} -> get_period_dates("today")
      [] branch \in {"week_retail", "week_orders"} -> get_period_dates("week")
      [] OTHER -> get_period_dates("month")

\* What executor.submit(...).result() gives for one branch of the quick report:
\* the branch's report, None, or the exception the branch raised.
BranchResult(input, branch, period) ==
    IF branch \in {"today_retail", "week_retail", "month_retail"}
    THEN get_retail_sales_report(input.demands, input.returns, period[1], period[2])
    ELSE get_sales_report(input.orders, period[1], period[2])

SalesOf(r) == IF r = None THEN 0 ELSE r.total_sales
CountOf(r) == IF r = None THEN 0 ELSE r.total_orders
PeriodData(retail, orders) ==
    [retail_sales |-> SalesOf(retail), retail_count |-> CountOf(retail),
     order_sales |-> SalesOf(orders), order_count |-> CountOf(orders)]

\* get_quick_report, lines 758-796: an exception of any result() reaches the
\* except and the method returns None; otherwise zeros stand in for a None.
QuickOf(res) ==
    IF \E b \in Branches : res[b] = Raised
    THEN None
    ELSE [tag |-> "quick",
          today_data |-> PeriodData(res["today_retail"], res["today_orders"]),
          week_data |-> PeriodData(res["week_retail"], res["week_orders"]),
          month_data |-> PeriodData(res["month_retail"], res["month_orders"])]

\* MoyskladAPI.get_quick_report: six fetches on the pool, joined by result().
get_quick_report(q) ==
    QuickOf([b \in Branches |-> BranchResult(q[b], b, BranchPeriod(b))])

----------------------------------------------------------------------------
(* The top-product ranking (get_top_products, _get_assortment_name)         *)

SentinelName == "Bez nazvaniya"       \* the source's fallback display name

\* an assortment object: its inline name and its meta.href, when it has them
Named(name) == [has_name |-> TRUE, name |-> name, has_href |-> FALSE, href |-> ""]
ByHref(href) == [has_name |-> FALSE, name |-> "", has_href |-> TRUE, href |-> href]
Bare == [has_name |-> FALSE, name |-> "", has_href |-> FALSE, href |-> ""]

Hrefs == {"h1", "h2"}
EmptyCache == [h \in Hrefs |-> [cached |-> FALSE, name |-> ""]]

\* MoyskladAPI._get_assortment_name: the inline name; else the sentinel when
\* there is no href; else the cached name; else one GET of the href, whose
\* name is cached when the status is 200.  `fetched` lists the GETs issued.
get_assortment_name(assortment, cache, hrefs) ==
    IF assortment.has_name
    THEN [name |-> assortment.name, cache |-> cache, fetched |-> <<>>]
    ELSE IF ~assortment.has_href
    THEN [name |-> SentinelName, cache |-> cache, fetched |-> <<>>]
    ELSE IF cache[assortment.href].cached
    THEN [name |-> cache[assortment.href].name, cache |-> cache, fetched |-> <<>>]
    ELSE IF hrefs[assortment.href].fault = "none"
    THEN [name |-> IF hrefs[assortment.href].has_name
                   THEN hrefs[assortment.href].name ELSE SentinelName,
          cache |-> [cache EXCEPT ![assortment.href] =
                        [cached |-> TRUE,
                         name |-> IF hrefs[assortment.href].has_name
                                  THEN hrefs[assortment.href].name
                                  ELSE SentinelName]],
          fetched |-> <<assortment.href>>]
    ELSE [name |-> SentinelName, cache |-> cache, fetched |-> <<assortment.href>>]

\* the line items of one channel: the positions of every record with an id
\* whose positions request is answered
PositionsOf(rec) ==
    IF ~rec.has_id \/ make_request(rec.positions, limit) = None THEN <<>>
    ELSE make_request(rec.positions, limit).rows

RECURSIVE Flatten(_, _)
Flatten(recs, i) ==
    IF i > Len(recs) THEN <<>> ELSE PositionsOf(recs[i]) \o Flatten(recs, i + 1)

ChannelItems(endpoint) ==
    IF make_request(endpoint, limit) = None THEN <<>>
    ELSE Flatten(make_request(endpoint, limit).rows, 1)

\* line items without a resolved name left out of the ranking
SkipUnnamed(products, name, quantity, amount) ==
    IF name = SentinelName THEN products
    ELSE IF \E i \in 1..Len(products) : products[i].name = name
    THEN [i \in 1..Len(products) |->
            IF products[i].name = name
            THEN [name |-> name, quantity |-> products[i].quantity + quantity,
                  amount |-> products[i].amount + amount]
            ELSE products[i]]
    ELSE Append(products, [name |-> name, quantity |-> quantity, amount |-> amount])

\* item = products.setdefault(name, ...); item["quantity"] += quantity;
\* item["amount"] += amount.  The dict keeps its keys in insertion order.
Accumulate(products, name, quantity, amount) ==
    IF \E i \in 1..Len(products) : products[i].name = name
    THEN [i \in 1..Len(products) |->
            IF products[i].name = name
            THEN [name |-> name, quantity |-> products[i].quantity + quantity,
                  amount |-> products[i].amount + amount]
            ELSE products[i]]
    ELSE Append(products, [name |-> name, quantity |-> quantity, amount |-> amount])

\* one line item: resolve its name, add its quantity and quantity * price
TakeItem(st, pos, resolved) ==
    [products |-> Accumulate(st.products, resolved.name, pos.quantity,
                             pos.quantity * pos.price),
     cache |-> resolved.cache,
     fetched |-> st.fetched \o resolved.fetched]

RECURSIVE Drain(_, _, _, _)
Drain(items, i, st, hrefs) ==
    IF i > Len(items) THEN st
    ELSE Drain(items, i + 1,
               TakeItem(st, items[i],
                        get_assortment_name(items[i].assortment, st.cache, hrefs)),
               hrefs)

\* a ranking by quantity first
QuantityFirst(x, y) ==
    \/ x.quantity > y.quantity
    \/ x.quantity = y.quantity /\ x.amount > y.amount

\* key=lambda kv: (kv[1]["amount"], kv[1]["quantity"]), compared as tuples
KeyGreater(x, y) ==
    \/ x.amount > y.amount
    \/ x.amount = y.amount /\ x.quantity > y.quantity

\* sorted(..., reverse=True): descending by key, equal keys in their order
PlaceOf(products, i) ==
    1 + Cardinality({k \in 1..Len(products) :
                        \/ KeyGreater(products[k], products[i])
                        \/ ~KeyGreater(products[i], products[k]) /\ k < i})

Sorted(products) ==
    [p \in 1..Len(products) |->
        products[CHOOSE i \in 1..Len(products) : PlaceOf(products, i) = p]]

\* sorted_items[:limit] if stat["quantity"] > 0.  round(x, 2) leaves a whole
\* number of kopecks as it is.
TopItems(products, n) ==
    SelectSeq(SubSeq(Sorted(products), 1, Min(n, Len(products))),
              LAMBDA stat : stat.quantity > 0)

TopOf(st, n) ==
    [value |-> IF Len(st.products) = 0 THEN None
               ELSE [tag |-> "top_items", items |-> TopItems(st.products, n)],
     fetched |-> st.fetched]

\* MoyskladAPI.get_top_products(date_from, date_to, limit=n) on a client with
\* an empty name cache: the customer orders, then the retail demands.
get_top_products(w) ==
    TopOf(Drain(ChannelItems(w.orders) \o ChannelItems(w.retail), 1,
                [products |-> <<>>, cache |-> EmptyCache, fetched |-> <<>>],
                w.hrefs),
          w.n)

----------------------------------------------------------------------------
(* Period-over-period comparison (AnalyticsCalculator)                      *)

\* percent > 0, percent < 0 or percent == 0 of a fraction
Positive(f) == f.num * f.den > 0
Negative(f) == f.num * f.den < 0

\* a growth measured against previous with its sign
SignedGrowth(current, previous) ==
    IF previous = 0
    THEN [change |-> current,
          percent |-> IF current > 0 THEN Frac(100, 1) ELSE Zero,
          direction |-> IF current > 0 THEN "up" ELSE "same"]
    ELSE [change |-> current - previous,
          percent |-> Frac((current - previous) * 100, previous),
          direction |-> IF Positive(Frac((current - previous) * 100, previous))
                        THEN "up"
                        ELSE IF Negative(Frac((current - previous) * 100, previous))
                        THEN "down" ELSE "same"]

\* AnalyticsCalculator.calculate_growth
calculate_growth(current, previous) ==
    IF previous = 0
    THEN [change |-> current,
          percent |-> IF current > 0 THEN Frac(100, 1) ELSE Zero,
          direction |-> IF current > 0 THEN "up" ELSE "same"]
    ELSE [change |-> current - previous,
          percent |-> Frac((current - previous) * 100, Abs(previous)),
          direction |-> IF Positive(Frac((current - previous) * 100, Abs(previous)))
                        THEN "up"
                        ELSE IF Negative(Frac((current - previous) * 100, Abs(previous)))
                        THEN "down" ELSE "same"]

----------------------------------------------------------------------------
(* Upstream contents the report engine is run against *)

SeqsUpTo(S, n) == UNION {[1..k -> S] : k \in 0..n}
Repeat(row, n) == [i \in 1..n |-> row]
Periods == {<<a, b>> : a \in 1..MaxDay, b \in 1..MaxDay} \ {<<a, b>> \in (1..MaxDay) \X (1..MaxDay) : a > b}

OrderRow(created, sum) ==
    [created |-> created, sum |-> sum, sum_null |-> FALSE, has_id |-> TRUE,
     positions |-> <<2>>]
NullSumOrder == [OrderRow(1, 0) EXCEPT !.sum_null = TRUE]
OrderRows == {OrderRow(d, s) : d \in 0..MaxDay, s \in {100, 300}}
                 \cup {NullSumOrder, [OrderRow(1, 100) EXCEPT !.has_id = FALSE]}

RetailRow(moment, sum, store) ==
    [moment |-> moment, sum |-> sum, sum_null |-> FALSE, store |-> store,
     positions |-> <<1>>]
NullSumDemand == [RetailRow(1, 0, "A") EXCEPT !.sum_null = TRUE]
RetailRows == {RetailRow(m, s, st) : m \in 1..2, s \in {100, 60}, st \in {"A", "B"}}
                  \cup {RetailRow(0, 100, "A")}
ReturnRows == {RetailRow(1, s, st) : s \in {40, -40}, st \in {"A", "B"}}

Ok(recs) == [fault |-> "none", recs |-> recs]
Failing(fault) == [fault |-> fault, recs |-> <<>>]
Failures == {Failing(f) : f \in Faults \ {"none"}}

Single(orders, demands, returns, period) ==
    [tag |-> "single", orders |-> orders, retail |-> demands, returns |-> returns,
     date_from |-> period[1], date_to |-> period[2]]

\* one period, the orders endpoint varied
OrderWindows ==
    {Single(o, Ok(<<>>), Ok(<<>>), p) :
        o \in {Ok(r) : r \in SeqsUpTo(OrderRows, MaxRows)} \cup Failures,
        p \in Periods}

\* one period, the retail demands and returns varied
RetailWindows ==
    {Single(Ok(<<>>), Ok(d), Ok(r), p) :
        d \in SeqsUpTo(RetailRows \cup {NullSumDemand}, MaxRows),
        r \in SeqsUpTo(ReturnRows, MaxRows),
        p \in {<<1, 1>>, <<1, MaxDay>>}}

\* one period, every endpoint failing or not
FaultWindows ==
    {Single(o, d, r, <<1, MaxDay>>) :
        o \in {Ok(<<OrderRow(1, 300)>>)} \cup Failures,
        d \in {Ok(<<RetailRow(1, 100, "A")>>)} \cup Failures,
        r \in {Ok(<<RetailRow(1, 40, "A")>>)} \cup Failures}

\* one period holding as many records as a page, and more
LongWindows ==
    {Single(Ok(Repeat(OrderRow(1, 100), n)), Ok(Repeat(RetailRow(1, 100, "A"), m)),
            Ok(<<>>), <<1, MaxDay>>) :
        n \in {1, limit} \cup {limit + k : k \in 1..MaxOver},
        m \in {1, limit} \cup {limit + k : k \in 1..MaxOver}}

\* the six branches of the quick report, each with its own outcome
OrderBranches ==
    {[orders |-> o] : o \in {Ok(<<OrderRow(MaxDay, 300)>>), Ok(<<>>),
                             Ok(<<[NullSumOrder EXCEPT !.created = MaxDay]>>),
                             Failing("timeout")}}
RetailBranches ==
    {[demands |-> d, returns |-> Ok(<<>>)] :
        d \in {Ok(<<RetailRow(MaxDay, 100, "A")>>), Ok(<<>>), Ok(<<NullSumDemand>>),
               Failing("timeout")}}
QuickWindows ==
    {[tag |-> "quick",
      q |-> [b \in Branches |->
               IF b \in {"today_orders", "week_orders", "month_orders"}
               THEN o[b] ELSE r[b]]] :
        o \in [{"today_orders", "week_orders", "month_orders"} -> OrderBranches],
        r \in [{"today_retail", "week_retail", "month_retail"} -> RetailBranches]}

\* two totals to compare
GrowthWindows ==
    {[tag |-> "growth", current |-> c, previous |-> p] :
        c \in (-MaxAmount)..MaxAmount, p \in (-MaxAmount)..MaxAmount}

Windows == OrderWindows \cup RetailWindows \cup FaultWindows \cup LongWindows
               \cup QuickWindows \cup GrowthWindows

\* line items of the top-product ranking: quantity and price of a position
Pos(assortment, quantity, price) ==
    [assortment |-> assortment, quantity |-> quantity, price |-> price]
TopPositions ==
    {Pos(Named("A"), 3, 100), Pos(Named("B"), 10, 10), Pos(Named("B"), -10, 10),
     Pos(Named("A"), -4, 10),
     Pos(ByHref("h1"), 2, 50), Pos(ByHref("h2"), 1, 100), Pos(Bare, 1, 30)}

\* a customer order or retail demand with its positions behind a request
TopRecord(positions) == [has_id |-> TRUE, positions |-> Ok(positions)]

\* what a GET of an assortment href answers
NameAnswer(name) == [fault |-> "none", has_name |-> TRUE, name |-> name]
HrefAnswers ==
    {NameAnswer("C"), [fault |-> "none", has_name |-> FALSE, name |-> ""],
     [fault |-> "500", has_name |-> FALSE, name |-> ""],
     [fault |-> "timeout", has_name |-> FALSE, name |-> ""]}
HrefWorlds == {[h \in Hrefs |-> IF h = "h2" THEN NameAnswer("B") ELSE a] :
                  a \in HrefAnswers}

TopWindow(orders, retail, hrefs, n) ==
    [tag |-> "top", orders |-> orders, retail |-> retail, hrefs |-> hrefs, n |-> n]

\* up to MaxItems line items, one per record, the first k of them in customer
\* orders and the rest in retail demands
TopWindows ==
    {TopWindow(Ok([i \in 1..k[2] |-> TopRecord(<<k[1][i]>>)]),
               Ok([i \in 1..(Len(k[1]) - k[2]) |-> TopRecord(<<k[1][k[2] + i]>>)]),
               hrefs, n) :
        k \in {<<items, split>> \in SeqsUpTo(TopPositions, MaxItems) \X (0..MaxItems) :
                  split <= Len(items)},
        hrefs \in HrefWorlds, n \in 1..MaxTop}

\* a channel that fails, a record without id, positions that fail
TopChannels ==
    {Failing("500"),
     Ok(<<[has_id |-> FALSE, positions |-> Ok(<<Pos(Named("A"), 3, 100)>>)]>>),
     Ok(<<[has_id |-> TRUE, positions |-> Failing("500")]>>),
     Ok(<<TopRecord(<<Pos(Named("A"), 3, 100), Pos(ByHref("h1"), 2, 50)>>),
          TopRecord(<<Pos(ByHref("h1"), 1, 50)>>)>>)}
TopFaultWindows ==
    {TopWindow(orders, retail, hrefs, n) :
        orders \in TopChannels, retail \in TopChannels,
        hrefs \in HrefWorlds, n \in 1..MaxTop}

----------------------------------------------------------------------------
(* The credential vault (src/security.py) and the subscriber store          *)
(* (src/database.py)                                                        *)

Tenants == {"A", "B", "C"}                 \* telegram ids
Token(t) == [tag |-> "token", owner |-> t]  \* the API token t registered
EmptyStr == [tag |-> "str", owner |-> ""]   \* the string ""
NULL == [tag |-> "NULL"]

\* A stored blob: Fernet ciphertext of a token under the key of that time.
Fernet(token, key) == [tag |-> "fernet", plain |-> token, key |-> key]

\* SecurityManager.decrypt: the plaintext, or "" when the blob is empty or
\* Fernet refuses it (here: it was made under another key).
decrypt(encrypted_data) ==
    IF encrypted_data = EmptyStr THEN EmptyStr
    ELSE IF encrypted_data.tag = "fernet" /\ encrypted_data.key = "current"
    THEN encrypted_data.plain
    ELSE EmptyStr

UserRow(t, blob, active) ==
    [telegram_id |-> t, api_token_encrypted |-> blob, is_active |-> active]

Registered == {users_tbl[i].telegram_id : i \in 1..Len(users_tbl)}

\* a WHERE clause without the notification_enabled test
SubscribedWhateverSetting(row) ==
    /\ row.api_token_encrypted # NULL
    /\ row.is_active

\* Database.get_users_with_notifications: (telegram_id, api_token_encrypted) of
\* the rows of users joined with user_settings that pass the WHERE clause.
Subscribed(row) ==
    /\ row.telegram_id \in DOMAIN user_settings
    /\ user_settings[row.telegram_id]
    /\ row.api_token_encrypted # NULL
    /\ row.is_active

get_users_with_notifications ==
    LET rows == SelectSeq(users_tbl, Subscribed)
    IN  [i \in 1..Len(rows) |-> <<rows[i].telegram_id, rows[i].api_token_encrypted>>]

\* one process-wide client, carrying the token it was first built with
SharedClient(api_token) == [tag |-> "api", api_token |-> Token("A")]

\* MoyskladAPI.__init__ behind api_factory: a client of its own for the token.
api_factory(api_token) == [tag |-> "api", api_token |-> api_token]

\* What the account behind a token answers during one fetch.
Cases == {"down", "empty", "sales", "malformed"}
AccountSum(token) == CASE token.owner = "A" -> 100
                       [] token.owner = "B" -> 200
                       [] OTHER -> 300
Account(token, case, period) ==
    CASE case = "down" ->
            [orders |-> Failing("timeout"), retail |-> Failing("timeout"),
             returns |-> Failing("timeout")]
      [] case = "empty" ->
            [orders |-> Ok(<<>>), retail |-> Ok(<<>>), returns |-> Ok(<<>>)]
      [] case = "sales" ->
            [orders |-> Ok(<<OrderRow(period[1], AccountSum(token))>>),
             retail |-> Ok(<<RetailRow(period[1], AccountSum(token), "A")>>),
             returns |-> Ok(<<>>)]
      [] OTHER ->
            [orders |-> Ok(<<[NullSumOrder EXCEPT !.created = period[1]]>>),
             retail |-> Ok(<<>>), returns |-> Ok(<<>>)]

----------------------------------------------------------------------------
(* The scheduled batch dispatcher (src/scheduler.py)                        *)

Jobs == {"daily_stats", "weekly_stats", "monthly_stats"}

\* the period_type each job passes to _send_reports_to_users
period_type(j) == CASE j = "daily_stats" -> "yesterday"
                    [] j = "weekly_stats" -> "last_week"
                    [] OTHER -> "last_month"

\* two runs of one job id allowed side by side
TwoAtOnce == 1 + 1

\* add_job(...) passes no max_instances: APScheduler's default of one running
\* instance per job id applies.
max_instances == 1

Upd(f, j, v) == [f EXCEPT ![j] = v]
Running(j) == pc[j] \notin {"idle", "done"}

\* the (user_id, encrypted_token) the for loop stands at
user_id(j) == users[j][idx[j]][1]
encrypted_token(j) == users[j][idx[j]][2]

\* Where the for loop goes when an iteration ends: the next tenant, or the
\* summary line after the loop.
LoopPc(j) == IF idx[j] < Len(users[j]) THEN "iter" ELSE "done"
LoopIdx(j) == IF idx[j] < Len(users[j]) THEN idx[j] + 1 ELSE idx[j]

\* a decrypt failure that ends the batch instead of going on
AbortOnDecryptFailure(j) == [pc |-> "done", idx |-> idx[j]]

\* "if not api_token: ... error_count += 1; continue"
AfterDecryptFailure(j) == [pc |-> LoopPc(j), idx |-> LoopIdx(j)]

\* an exception that ends the batch instead of going on
AbortOnException(j) == [pc |-> "done", idx |-> idx[j]]

\* "except Exception as e: ... error_count += 1", then the next iteration
AfterException(j) == [pc |-> LoopPc(j), idx |-> LoopIdx(j)]

\* a notice that ends the batch instead of going on
StopAfterNotice(j) == [pc |-> "done", idx |-> idx[j]]

\* "success_count += 1; continue" after the no-data notice
AfterNotice(j) == [pc |-> LoopPc(j), idx |-> LoopIdx(j)]

\* "if not report": a report object is falsy only when it is None
NotReport(rep) == rep = None

Mark(j, outcome) ==
    [visited[j] EXCEPT ![Len(visited[j])] = [@ EXCEPT !.outcome = outcome]]

\* The coroutine of job j leaves the tenant loop at `to`; APScheduler counts
\* the instance out when the coroutine returns.
Goto(j, to) ==
    /\ pc' = Upd(pc, j, to.pc)
    /\ idx' = Upd(idx, j, to.idx)
    /\ instances' = IF to.pc = "done" THEN Upd(instances, j, instances[j] - 1)
                    ELSE instances

\* The trigger of job j is due: the scheduler submits the job unless
\* max_instances of it are running, and then skips this firing.
Fire(j) ==
    /\ IF instances[j] >= max_instances
       THEN /\ skipped' = Upd(skipped, j, TRUE)
            /\ UNCHANGED <<instances, pc, optout, outbox, visited, slept>>
       ELSE /\ instances' = Upd(instances, j, instances[j] + 1)
            /\ pc' = Upd(pc, j, "start")
            /\ skipped' = Upd(skipped, j, FALSE)
            /\ optout' = Upd(optout, j,
                   {t \in Tenants : t \notin DOMAIN user_settings \/ ~user_settings[t]})
            /\ outbox' = Upd(outbox, j, <<>>)
            /\ visited' = Upd(visited, j, <<>>)
            /\ slept' = Upd(slept, j, FALSE)
    /\ UNCHANGED <<users_tbl, user_settings, request_logs, users, idx,
                   success_count, error_count, api, report, env>>
    /\ UNCHANGED engineVars /\ UNCHANGED sessionVars

\* _send_reports_to_users up to the loop: read the subscribers; return when
\* there are none or when the read raises (the outer except logs it).
StartRun(j) ==
    /\ pc[j] = "start"
    /\ \E db_ok \in BOOLEAN :
         LET list == get_users_with_notifications
         IN  IF db_ok /\ Len(list) > 0
             THEN /\ users' = Upd(users, j, list)
                  /\ success_count' = Upd(success_count, j, 0)
                  /\ error_count' = Upd(error_count, j, 0)
                  /\ Goto(j, [pc |-> "iter", idx |-> 1])
             ELSE /\ users' = Upd(users, j, IF db_ok THEN list ELSE <<>>)
                  /\ success_count' = Upd(success_count, j, 0)
                  /\ error_count' = Upd(error_count, j, 0)
                  /\ Goto(j, [pc |-> "done", idx |-> 0])
    /\ UNCHANGED <<users_tbl, user_settings, request_logs, api, report, outbox,
                   visited, slept, skipped, optout, env>>
    /\ UNCHANGED engineVars /\ UNCHANGED sessionVars

\* error_count += 1 for the tenant the loop stands at, and on to `to`.
TenantFailed(j, outcome, to) ==
    /\ visited' = Upd(visited, j,
           Append(visited[j], [user_id |-> user_id(j), outcome |-> outcome]))
    /\ error_count' = Upd(error_count, j, error_count[j] + 1)
    /\ Goto(j, to)

\* Lines 169-193: the fetch raised; or there is no report and the notice is
\* sent; or the report is formatted and sent.
AfterFetch(j, client, rep, fault) ==
    /\ api' = Upd(api, j, client)
    /\ IF rep = Raised
       THEN /\ TenantFailed(j, "exception", AfterException(j))
            /\ UNCHANGED report
       ELSE /\ report' = Upd(report, j, rep)
            /\ IF ~NotReport(rep) /\ fault = "format"
               THEN TenantFailed(j, "exception", AfterException(j))
               ELSE /\ visited' = Upd(visited, j,
                          Append(visited[j],
                                 [user_id |-> user_id(j), outcome |-> "pending"]))
                    /\ Goto(j, [pc |-> IF NotReport(rep) THEN "send_notice"
                                       ELSE "send_report",
                                idx |-> idx[j]])
                    /\ UNCHANGED error_count

\* Lines 164-167: the tenant's own client fetches the period of the job.
Fetch(j, client, case, fault, period) ==
    AfterFetch(j, client,
               get_combined_sales_report(Account(client.api_token, case, period),
                                         period[1], period[2]),
               fault)

\* Lines 156-164: no token, no attempt; else a client is built for the token.
Iterate(j, api_token, case, fault) ==
    IF api_token = EmptyStr
    THEN /\ TenantFailed(j, "decrypt_error", AfterDecryptFailure(j))
         /\ UNCHANGED <<api, report>>
    ELSE IF fault = "api_factory"
    THEN /\ TenantFailed(j, "exception", AfterException(j))
         /\ UNCHANGED <<api, report>>
    ELSE Fetch(j, api_factory(api_token), case, fault,
               get_period_dates(period_type(j)))

\* What the environment may do to a run: every account answer and exception,
\* or (env = "calm") accounts that answer with sales or not at all, and no
\* exception.
EnvCases == IF env = "calm" THEN {"sales", "down"} ELSE Cases
EnvFaults == IF env = "calm" THEN {"none"} ELSE {"none", "api_factory", "format"}
EnvSends == IF env = "calm" THEN {"ok"} ELSE {"ok", "send_raised", "db_raised"}

\* One iteration up to its first await: decrypt, build the client, fetch the
\* combined report, format it.  `fault` is an exception the environment throws
\* in client creation or formatting; `case` is what the tenant's account answers.
ProcessTenant(j) ==
    /\ pc[j] = "iter"
    /\ \E case \in EnvCases, fault \in EnvFaults :
         Iterate(j, decrypt(encrypted_token(j)), case, fault)
    /\ UNCHANGED <<users_tbl, user_settings, request_logs, users, success_count,
                   outbox, slept, skipped, optout, env>>
    /\ UNCHANGED engineVars /\ UNCHANGED sessionVars

\* The no-data notice: bot.send_message returns or raises.
SendNotice(j) ==
    /\ pc[j] = "send_notice"
    /\ \E outcome \in EnvSends \ {"db_raised"} :
         IF outcome = "ok"
         THEN /\ outbox' = Upd(outbox, j, Append(outbox[j],
                    [chat_id |-> user_id(j), kind |-> "notice", text |-> None,
                     after_sleep |-> slept[j]]))
              /\ slept' = Upd(slept, j, FALSE)
              /\ success_count' = Upd(success_count, j, success_count[j] + 1)
              /\ visited' = Upd(visited, j, Mark(j, "success"))
              /\ Goto(j, AfterNotice(j))
              /\ UNCHANGED error_count
         ELSE /\ error_count' = Upd(error_count, j, error_count[j] + 1)
              /\ visited' = Upd(visited, j, Mark(j, "exception"))
              /\ Goto(j, AfterException(j))
              /\ UNCHANGED <<outbox, slept, success_count>>
    /\ UNCHANGED <<users_tbl, user_settings, request_logs, users, api, report,
                   skipped, optout, env>>
    /\ UNCHANGED engineVars /\ UNCHANGED sessionVars

\* The report itself: bot.send_message returns or raises; after a delivery the
\* request is logged (get_user, log_request: the database may raise), the
\* success is counted and the coroutine sleeps.
SendReport(j) ==
    /\ pc[j] = "send_report"
    /\ \E outcome \in EnvSends :
         LET message == [chat_id |-> user_id(j), kind |-> "report",
                         text |-> report[j], after_sleep |-> slept[j]]
         IN  IF outcome = "send_raised"
             THEN /\ error_count' = Upd(error_count, j, error_count[j] + 1)
                  /\ visited' = Upd(visited, j, Mark(j, "exception"))
                  /\ Goto(j, AfterException(j))
                  /\ UNCHANGED <<outbox, slept, success_count, request_logs>>
             ELSE IF outcome = "db_raised"
             THEN /\ outbox' = Upd(outbox, j, Append(outbox[j], message))
                  /\ slept' = Upd(slept, j, FALSE)
                  /\ error_count' = Upd(error_count, j, error_count[j] + 1)
                  /\ visited' = Upd(visited, j, Mark(j, "exception"))
                  /\ Goto(j, AfterException(j))
                  /\ UNCHANGED <<success_count, request_logs>>
             ELSE /\ outbox' = Upd(outbox, j, Append(outbox[j], message))
                  /\ slept' = Upd(slept, j, FALSE)
                  /\ request_logs' =
                        IF user_id(j) \in Registered
                        THEN request_logs \cup {<<user_id(j), period_type(j)>>}
                        ELSE request_logs
                  /\ success_count' = Upd(success_count, j, success_count[j] + 1)
                  /\ visited' = Upd(visited, j, Mark(j, "success"))
                  /\ Goto(j, [pc |-> "sleep", idx |-> idx[j]])
                  /\ UNCHANGED error_count
    /\ UNCHANGED <<users_tbl, user_settings, users, api, report, skipped, optout, env>>
    /\ UNCHANGED engineVars /\ UNCHANGED sessionVars

\* "await asyncio.sleep(0.5)" is over: the loop goes on.
SleepDone(j) ==
    /\ pc[j] = "sleep"
    /\ slept' = Upd(slept, j, TRUE)
    /\ Goto(j, [pc |-> LoopPc(j), idx |-> LoopIdx(j)])
    /\ UNCHANGED <<users_tbl, user_settings, request_logs, users, success_count,
                   error_count, api, report, outbox, visited, skipped, optout, env>>
    /\ UNCHANGED engineVars /\ UNCHANGED sessionVars

\* Database.update_notification_setting(telegram_id, enabled)
UpdateNotificationSetting(telegram_id, enabled) ==
    /\ IF telegram_id \in Registered /\ telegram_id \in DOMAIN user_settings
       THEN /\ user_settings' = [user_settings EXCEPT ![telegram_id] = enabled]
            /\ optout' = IF enabled
                         THEN [j \in Jobs |-> optout[j] \ {telegram_id}]
                         ELSE optout
       ELSE UNCHANGED <<user_settings, optout>>
    /\ UNCHANGED <<users_tbl, request_logs, instances, pc, users, idx,
                   success_count, error_count, api, report, outbox, visited, slept,
                   skipped, env>>
    /\ UNCHANGED engineVars /\ UNCHANGED sessionVars

----------------------------------------------------------------------------
(* The report engine, one call at a time *)

CallSalesReport ==
    /\ phase = "ask" /\ window.tag = "single"
    /\ result' = [op |-> "get_sales_report",
                  value |-> get_sales_report(window.orders, window.date_from,
                                             window.date_to)]
    /\ phase' = "got"
    /\ UNCHANGED window /\ UNCHANGED poolVars /\ UNCHANGED dispatcherVars /\ UNCHANGED sessionVars

CallRetailSalesReport ==
    /\ phase = "ask" /\ window.tag = "single"
    /\ result' = [op |-> "get_retail_sales_report",
                  value |-> get_retail_sales_report(window.retail, window.returns,
                                window.date_from, window.date_to)]
    /\ phase' = "got"
    /\ UNCHANGED window /\ UNCHANGED poolVars /\ UNCHANGED dispatcherVars /\ UNCHANGED sessionVars

CallCombinedSalesReport ==
    /\ phase = "ask" /\ window.tag = "single"
    /\ result' = [op |-> "get_combined_sales_report",
                  value |-> get_combined_sales_report(window, window.date_from,
                                                      window.date_to)]
    /\ phase' = "got"
    /\ UNCHANGED window /\ UNCHANGED poolVars /\ UNCHANGED dispatcherVars /\ UNCHANGED sessionVars

CallQuickReport ==
    /\ phase = "ask" /\ window.tag = "quick"
    /\ result' = [op |-> "get_quick_report", value |-> get_quick_report(window.q)]
    /\ phase' = "got"
    /\ UNCHANGED window /\ UNCHANGED poolVars /\ UNCHANGED dispatcherVars /\ UNCHANGED sessionVars

CallCalculateGrowth ==
    /\ phase = "ask" /\ window.tag = "growth"
    /\ result' = [op |-> "calculate_growth",
                  value |-> calculate_growth(window.current, window.previous)]
    /\ phase' = "got"
    /\ UNCHANGED window /\ UNCHANGED poolVars /\ UNCHANGED dispatcherVars /\ UNCHANGED sessionVars

CallTopProducts ==
    /\ phase = "ask" /\ window.tag = "top"
    /\ result' = [op |-> "get_top_products",
                  value |-> get_top_products(window).value,
                  fetched |-> get_top_products(window).fetched]
    /\ phase' = "got"
    /\ UNCHANGED window /\ UNCHANGED poolVars /\ UNCHANGED dispatcherVars /\ UNCHANGED sessionVars

----------------------------------------------------------------------------
(* get_quick_report on its worker pool, step by step *)

max_workers == 3     \* ThreadPoolExecutor(max_workers=3)

\* the order of the six executor.submit calls, and of the six result() calls
BranchOrder == <<"today_retail", "today_orders", "week_retail", "week_orders",
                 "month_retail", "month_orders">>

\* an absent key of context.user_data (NoType where the values are report
\* types), and the dict before any handler ran
Absent == [tag |-> "absent"]
NoType == "absent"
NoUserData == [current_report_type |-> NoType,
               expecting_custom_period_for |-> NoType,
               detailed_custom_period |-> Absent,
               user_id |-> Absent, phone |-> Absent,
               waiting_for_token |-> Absent]
IdleSession == user_data = NoUserData

IdlePool ==
    /\ futures = [b \in Branches |-> [state |-> "none", value |-> None]]
    /\ submitted = 0
    /\ joined = 0

RunningBranches == {b \in Branches : futures[b].state = "running"}
PositionOf(b) == CHOOSE i \in 1..Len(BranchOrder) : BranchOrder[i] = b

\* a result() that does not wait for its future
JoinWithoutWaiting(b) == futures[b].state # "none"

\* Future.result() returns once the future is done.
Joinable(b) == futures[b].state = "done"

\* what result() hands over: the branch's report, None, or its exception
FutureValue(b) == IF futures[b].state = "done" THEN futures[b].value ELSE None

\* executor.submit(...): the next branch is queued; submit does not wait.
Submit ==
    /\ window.tag = "quick"
    /\ phase \in {"ask", "pool"}
    /\ submitted < Len(BranchOrder)
    /\ submitted' = submitted + 1
    /\ futures' = [futures EXCEPT ![BranchOrder[submitted + 1]].state = "queued"]
    /\ phase' = "pool"
    /\ UNCHANGED <<window, result, joined>> /\ UNCHANGED dispatcherVars /\ UNCHANGED sessionVars

\* A free worker takes the branch at the head of the queue.
StartBranch(b) ==
    /\ futures[b].state = "queued"
    /\ Cardinality(RunningBranches) < max_workers
    /\ \A c \in Branches : futures[c].state = "queued" => PositionOf(b) <= PositionOf(c)
    /\ futures' = [futures EXCEPT ![b].state = "running"]
    /\ UNCHANGED <<window, result, phase, submitted, joined>>
    /\ UNCHANGED dispatcherVars /\ UNCHANGED sessionVars

\* The branch's fetch returns or raises on its worker thread.
FinishBranch(b) ==
    /\ futures[b].state = "running"
    /\ futures' = [futures EXCEPT
                     ![b] = [state |-> "done",
                             value |-> BranchResult(window.q[b], b, BranchPeriod(b))]]
    /\ UNCHANGED <<window, result, phase, submitted, joined>>
    /\ UNCHANGED dispatcherVars /\ UNCHANGED sessionVars

\* The next result() call: it returns the value, or re-raises the branch's
\* exception, which leaves the with block.
JoinNext ==
    /\ phase = "pool"
    /\ submitted = Len(BranchOrder)
    /\ joined < Len(BranchOrder)
    /\ Joinable(BranchOrder[joined + 1])
    /\ IF FutureValue(BranchOrder[joined + 1]) = Raised
       THEN phase' = "unwind" /\ UNCHANGED joined
       ELSE joined' = joined + 1 /\ UNCHANGED phase
    /\ UNCHANGED <<window, result, futures, submitted>>
    /\ UNCHANGED dispatcherVars /\ UNCHANGED sessionVars

\* All six results are in: the QuickReport is composed and returned.
Compose ==
    /\ phase = "pool"
    /\ joined = Len(BranchOrder)
    /\ result' = [op |-> "get_quick_report",
                  value |-> QuickOf([b \in Branches |-> FutureValue(b)])]
    /\ phase' = "got"
    /\ UNCHANGED <<window, futures, submitted, joined>>
    /\ UNCHANGED dispatcherVars /\ UNCHANGED sessionVars

\* An exception leaves the with block: the executor shuts down waiting for
\* its workers, then "except Exception" returns None.
Unwind ==
    /\ phase = "unwind"
    /\ \A b \in Branches : futures[b].state = "done"
    /\ result' = [op |-> "get_quick_report", value |-> None]
    /\ phase' = "got"
    /\ UNCHANGED <<window, futures, submitted, joined>>
    /\ UNCHANGED dispatcherVars /\ UNCHANGED sessionVars

----------------------------------------------------------------------------
(* _make_request, step by step *)

\* what one call can meet: Faults, a 200 whose body is not JSON, and the
\* exceptions of the last two except clauses
RequestFaults == Faults \cup {"badjson", "request_exception", "exception"}

RequestWindows ==
    {[tag |-> "request", endpoint |-> e] :
        e \in {Ok(r) : r \in SeqsUpTo(OrderRows, MaxRows)}
                 \cup {Failing(f) : f \in RequestFaults \ {"none"}}}

\* requests.get(url, headers, params, timeout=30): the one network call.
SendRequest ==
    /\ phase = "ask" /\ window.tag = "request"
    /\ result' = [result EXCEPT !.response = requests_get(window.endpoint, limit),
                                !.calls = @ + 1]
    /\ phase' = "sent"
    /\ UNCHANGED window /\ UNCHANGED poolVars /\ UNCHANGED dispatcherVars /\ UNCHANGED sessionVars

\* The status test or the except clause the call ends in; the method returns.
ReturnOutcome ==
    /\ phase = "sent" /\ window.tag = "request"
    /\ result' = [result EXCEPT !.value = Outcome(result.response)]
    /\ phase' = "got"
    /\ UNCHANGED window /\ UNCHANGED poolVars /\ UNCHANGED dispatcherVars /\ UNCHANGED sessionVars

----------------------------------------------------------------------------
(* The interactive report handlers (src/handlers.py, class MenuHandlers)    *)

Chat == "A"          \* update.effective_user.id of the chat

ReportTypes == {"retail_sales", "customer_orders", "combined_report"}

\* Database.get_user(telegram_id): the user's row, or None
get_user(telegram_id) ==
    IF \E i \in 1..Len(users_tbl) : users_tbl[i].telegram_id = telegram_id
    THEN users_tbl[CHOOSE i \in 1..Len(users_tbl) :
                      users_tbl[i].telegram_id = telegram_id]
    ELSE None

\* "not user_data or not user_data.get('api_token_encrypted')"
NotRegistered(row) ==
    IF row = None THEN TRUE ELSE row.api_token_encrypted \in {NULL, EmptyStr}

\* format_report and format_retail_report put the report's numbers on the
\* lines of the message.
format_report(rep) == [kind |-> "report_text", body |-> rep]
format_retail_report(rep) == [kind |-> "report_text", body |-> rep]

\* format_combined_report also prints combined_total / combined_orders:
\* ZeroDivisionError when combined_orders is 0.
format_combined_report(rep) ==
    IF rep.combined_orders = 0 THEN Raised
    ELSE [kind |-> "report_text", body |-> rep,
          average |-> Frac(rep.combined_total, rep.combined_orders)]

\* _get_detailed_report_by_type, lines 1143-1165: the report method of the type
FetchReport(report_type, up, date_from, date_to) ==
    CASE report_type = "retail_sales" ->
            get_retail_sales_report(up.retail, up.returns, date_from, date_to)
      [] report_type = "customer_orders" ->
            get_sales_report(up.orders, date_from, date_to)
      [] OTHER -> get_combined_sales_report(up, date_from, date_to)

\* lines 1146-1177: "if report:" the formatted report, else the no-data line;
\* an exception of the fetch or of the formatting goes on to the except.
ReportText(report_type, rep) ==
    IF rep = Raised THEN Raised
    ELSE IF rep = None THEN [kind |-> "no_data", of |-> report_type]
    ELSE CASE report_type = "retail_sales" -> format_retail_report(rep)
           [] report_type = "customer_orders" -> format_report(rep)
           [] OTHER -> format_combined_report(rep)

\* lines 1184-1202: the text is sent, or the except sends the error line
ReplyOf(text) == IF text = Raised THEN [kind |-> "error"] ELSE text

\* what a handler leaves behind: its reply, the fetch it made and the report
\* the fetch gave; `expected` is expecting_custom_period_for as the handler
\* found it, `asked` the report type of the last custom-period request and
\* `seq` the number of messages the chat has sent
Shown(op, input, reply, asked) ==
    [op |-> op, input |-> input,
     expected |-> user_data.expecting_custom_period_for, reply |-> reply,
     fetch |-> Absent, value |-> None, asked |-> asked, seq |-> result.seq + 1]

\* lines 1138-1191 for the period [date_from, date_to]
Fetching(op, input, report_type, period_kind, date_from, date_to) ==
    /\ result' =
          [op |-> op, input |-> input,
           expected |-> user_data.expecting_custom_period_for,
           reply |-> ReplyOf(ReportText(report_type,
                        FetchReport(report_type, window, date_from, date_to))),
           fetch |-> [report_type |-> report_type, date_from |-> date_from,
                      date_to |-> date_to],
           value |-> FetchReport(report_type, window, date_from, date_to),
           asked |-> result.asked, seq |-> result.seq + 1]
    /\ request_logs' =
          IF ReportText(report_type,
                 FetchReport(report_type, window, date_from, date_to)) = Raised
          THEN request_logs
          ELSE request_logs \cup {<<Chat, report_type, period_kind>>}

\* MenuHandlers._get_detailed_report_by_type(report_type, period_kind) called
\* with context.user_data = data: registered, token decrypted, the period
\* (a custom one is taken out of user_data), the fetch and the reply.
get_detailed_report_by_type(op, input, report_type, period_kind, data) ==
    IF NotRegistered(get_user(Chat))
    THEN /\ result' = Shown(op, input, [kind |-> "register_first"], result.asked)
         /\ user_data' = data
         /\ UNCHANGED request_logs
    ELSE IF decrypt(get_user(Chat).api_token_encrypted) = EmptyStr
    THEN /\ result' = Shown(op, input, [kind |-> "decrypt_error"], result.asked)
         /\ user_data' = data
         /\ UNCHANGED request_logs
    ELSE IF period_kind # "custom"
    THEN /\ Fetching(op, input, report_type, period_kind,
                     get_period_dates(period_kind)[1],
                     get_period_dates(period_kind)[2])
         /\ user_data' = data
    ELSE IF data.detailed_custom_period = Absent
    THEN /\ result' = Shown(op, input, [kind |-> "period_missing"], result.asked)
         /\ user_data' = data
         /\ UNCHANGED request_logs
    ELSE /\ Fetching(op, input, report_type, period_kind,
                     data.detailed_custom_period.date_from,
                     data.detailed_custom_period.date_to)
         /\ user_data' = [data EXCEPT !.detailed_custom_period = Absent]

\* handle_retail_sales_report_menu, handle_customer_orders_menu and
\* handle_combined_report_menu: the type is kept for the period buttons.
HandleReportMenu(report_type) ==
    /\ phase = "chat" /\ result.seq < MaxMessages
    /\ IF NotRegistered(get_user(Chat))
       THEN /\ result' = Shown("handle_report_menu", report_type,
                               [kind |-> "register_first"], result.asked)
            /\ UNCHANGED user_data
       ELSE /\ result' = Shown("handle_report_menu", report_type,
                               [kind |-> "period_keyboard"], result.asked)
            /\ user_data' = [user_data EXCEPT !.current_report_type = report_type]
    /\ UNCHANGED <<window, phase, request_logs>> /\ UNCHANGED poolVars
    /\ UNCHANGED <<users_tbl, user_settings, instances, pc, users, idx,
                   success_count, error_count, api, report, outbox, visited,
                   slept, skipped, optout, env>>

\* context.user_data.get('current_report_type', 'customer_orders')
CurrentReportType ==
    IF user_data.current_report_type = NoType THEN "customer_orders"
    ELSE user_data.current_report_type

\* handle_detailed_period_selection: a period button.  The custom one goes to
\* _ask_custom_period_for_report, which notes the type the dates are awaited
\* for; the others fetch the report of the period.
HandleDetailedPeriodSelection(period_kind) ==
    /\ phase = "chat" /\ result.seq < MaxMessages
    /\ IF period_kind = "custom"
       THEN /\ result' = Shown("handle_detailed_period_selection", period_kind,
                               [kind |-> "ask_period"], CurrentReportType)
            /\ user_data' = [user_data EXCEPT
                                !.expecting_custom_period_for = CurrentReportType]
            /\ UNCHANGED request_logs
       ELSE get_detailed_report_by_type("handle_detailed_period_selection",
                period_kind, CurrentReportType, period_kind, user_data)
    /\ UNCHANGED <<window, phase>> /\ UNCHANGED poolVars
    /\ UNCHANGED <<users_tbl, user_settings, instances, pc, users, idx,
                   success_count, error_count, api, report, outbox, visited,
                   slept, skipped, optout, env>>

\* A date message: one date or two, each a day of the calendar or 0 for
\* digits that name no day (31.02.2026).  datetime.strptime raises ValueError
\* on those.
DateInputs == {<<d>> : d \in 0..MaxDay} \cup ((0..MaxDay) \X (0..MaxDay))
ValidDate(user_input) == \A i \in 1..Len(user_input) : user_input[i] # 0

\* lines 899-922: date_from and date_to of the input, the two dates in order
ParsePeriod(user_input) ==
    IF Len(user_input) = 1
    THEN [date_from |-> user_input[1], date_to |-> user_input[1],
          period_name |-> user_input]
    ELSE [date_from |-> Min(user_input[1], user_input[2]),
          date_to |-> IF user_input[1] > user_input[2]
                      THEN user_input[1] ELSE user_input[2],
          period_name |-> user_input]

\* an expectation that outlives the dates it waited for
KeepExpectation(data, period) == [data EXCEPT !.detailed_custom_period = period]

\* lines 917-926: the period is stored and the expectation popped
ConsumeExpectation(data, period) ==
    [data EXCEPT !.detailed_custom_period = period,
                 !.expecting_custom_period_for = NoType]

\* MenuHandlers._handle_date_input
HandleDateInput(user_input) ==
    /\ phase = "chat" /\ result.seq < MaxMessages
    /\ IF user_data.expecting_custom_period_for = NoType
       THEN /\ result' = Shown("_handle_date_input", user_input,
                               [kind |-> "main_menu"], result.asked)
            /\ UNCHANGED <<user_data, request_logs>>
       ELSE IF ~ValidDate(user_input)
       THEN /\ result' = Shown("_handle_date_input", user_input,
                               [kind |-> "invalid_date"], result.asked)
            /\ UNCHANGED <<user_data, request_logs>>
       ELSE get_detailed_report_by_type("_handle_date_input", user_input,
                user_data.expecting_custom_period_for, "custom",
                ConsumeExpectation(user_data, ParsePeriod(user_input)))
    /\ UNCHANGED <<window, phase>> /\ UNCHANGED poolVars
    /\ UNCHANGED <<users_tbl, user_settings, instances, pc, users, idx,
                   success_count, error_count, api, report, outbox, visited,
                   slept, skipped, optout, env>>

\* what the account of the chat's user holds, whatever the period asked
MenuWindows ==
    {[tag |-> "menu", orders |-> o, retail |-> d, returns |-> r] :
        o \in {Ok(<<>>), Ok(<<OrderRow(MaxDay, 300)>>),
               Ok(<<[NullSumOrder EXCEPT !.created = MaxDay]>>), Failing("timeout")},
        d \in {Ok(<<>>), Ok(<<RetailRow(MaxDay, 100, "A")>>), Failing("timeout")},
        r \in {Ok(<<>>), Failing("connection")}}

----------------------------------------------------------------------------
(* Registration and token update (src/handlers.py, class AuthHandlers)      *)

MinTokenLen == 20
TokenLens == {0, MinTokenLen - 1, MinTokenLen, MinTokenLen + 1}

\* a text message: its characters (name), their number without the
\* surrounding blanks (len), and the number of surrounding blanks (pad)
Typed(name, len, pad) == [tag |-> "message", name |-> name, len |-> len, pad |-> pad]
Text(name, len) == [tag |-> "text", name |-> name, len |-> len]
Messages == {Typed(name, len, pad) : name \in {"t1", "t2"}, len \in TokenLens, pad \in {0, 2}}

\* update.message.text.strip()
strip(message) == Text(message.name, message.len)

\* SecurityManager.encrypt: "" for empty data, the Fernet ciphertext under the
\* current key, and the data themselves when the encryption raises.
encrypt(data, fernet_raises) ==
    IF data.len = 0 THEN EmptyStr
    ELSE IF fernet_raises THEN data
    ELSE Fernet(data, "current")

\* Database.update_user_token: UPDATE users SET api_token_encrypted = ? WHERE
\* telegram_id = ?; the table after it, and cursor.rowcount > 0
TableWithToken(telegram_id, token_encrypted) ==
    [i \in 1..Len(users_tbl) |->
        IF users_tbl[i].telegram_id = telegram_id
        THEN [users_tbl[i] EXCEPT !.api_token_encrypted = token_encrypted]
        ELSE users_tbl[i]]
update_user_token(telegram_id) == telegram_id \in Registered

\* the try block of both handlers: encrypt, then update_user_token; a raise of
\* either ends in the except branch with nothing written
Saving(op, message, token_encrypted, db_raises, on_success, on_failure, on_error, data_after, state_after) ==
    LET raised == token_encrypted = Raised \/ db_raises
        success == ~raised /\ update_user_token(Chat)
    IN  /\ users_tbl' = IF raised THEN users_tbl
                        ELSE TableWithToken(Chat, token_encrypted)
        /\ result' = [op |-> op, input |-> message, token |-> strip(message),
                      before |-> users_tbl,
                      passed |-> IF raised THEN Absent ELSE token_encrypted,
                      reply |-> IF raised THEN on_error
                                ELSE IF success THEN on_success ELSE on_failure,
                      seq |-> result.seq + 1]
        /\ user_data' = data_after[IF raised THEN "error"
                                   ELSE IF success THEN "success" ELSE "failure"]
        /\ phase' = state_after[IF raised THEN "error"
                                ELSE IF success THEN "success" ELSE "failure"]

TooShort(op, message, on_short) ==
    /\ result' = [op |-> op, input |-> message, token |-> strip(message),
                  before |-> users_tbl, passed |-> Absent,
                  reply |-> on_short, seq |-> result.seq + 1]
    /\ UNCHANGED <<users_tbl, user_data, phase>>

\* AuthHandlers.get_api_token, the API_TOKEN state of the registration
\* conversation: a short token is asked again; otherwise the token is
\* encrypted and saved, and only a saved token ends the conversation and
\* clears user_id and phone.
GetApiToken(message, fernet_raises, db_raises) ==
    /\ phase = "API_TOKEN"
    /\ result.seq < MaxMessages
    /\ IF strip(message).len < MinTokenLen
       THEN TooShort("get_api_token", message, "too_short")
       ELSE Saving("get_api_token", message,
                   encrypt(strip(message), fernet_raises), db_raises,
                   "registered", "save_failed", "save_error",
                   [success |-> [user_data EXCEPT !.user_id = Absent, !.phone = Absent],
                    failure |-> user_data, error |-> user_data],
                   [success |-> "END", failure |-> "API_TOKEN", error |-> "API_TOKEN"])
    /\ UNCHANGED <<user_settings, request_logs, instances, pc, users, idx,
                   success_count, error_count, api, report, outbox, visited,
                   slept, skipped, optout, env>>
    /\ UNCHANGED <<window, futures, submitted, joined>>

\* AuthHandlers.process_token_update, the WAITING_TOKEN state of the token
\* conversation: a short token is asked again; otherwise the conversation
\* ends whatever the save did, and waiting_for_token is cleared.
ProcessTokenUpdate(message, fernet_raises, db_raises) ==
    /\ phase = "WAITING_TOKEN"
    /\ result.seq < MaxMessages
    /\ IF strip(message).len < MinTokenLen
       THEN TooShort("process_token_update", message, "too_short")
       ELSE Saving("process_token_update", message,
                   encrypt(strip(message), fernet_raises), db_raises,
                   "updated", "update_failed", "update_error",
                   [k \in {"success", "failure", "error"} |->
                       [user_data EXCEPT !.waiting_for_token = Absent]],
                   [k \in {"success", "failure", "error"} |-> "END"])
    /\ UNCHANGED <<user_settings, request_logs, instances, pc, users, idx,
                   success_count, error_count, api, report, outbox, visited,
                   slept, skipped, optout, env>>
    /\ UNCHANGED <<window, futures, submitted, joined>>

\* AuthHandlers.update_token, the entry of the token conversation
UpdateToken ==
    /\ phase = "END"
    /\ result.seq < MaxMessages
    /\ user_data' = [user_data EXCEPT !.waiting_for_token = [tag |-> "True"]]
    /\ phase' = "WAITING_TOKEN"
    /\ result' = [op |-> "update_token", input |-> Absent, token |-> Absent,
                  before |-> users_tbl, passed |-> Absent,
                  reply |-> "enter_token", seq |-> result.seq + 1]
    /\ UNCHANGED <<users_tbl, user_settings, request_logs, instances, pc, users, idx,
                   success_count, error_count, api, report, outbox, visited,
                   slept, skipped, optout, env>>
    /\ UNCHANGED <<window, futures, submitted, joined>>

----------------------------------------------------------------------------
(* Specifications *)

IdleDispatcher ==
    /\ request_logs = {}
    /\ instances = [j \in Jobs |-> 0]
    /\ pc = [j \in Jobs |-> "idle"]
    /\ users = [j \in Jobs |-> <<>>]
    /\ idx = [j \in Jobs |-> 0]
    /\ success_count = [j \in Jobs |-> 0]
    /\ error_count = [j \in Jobs |-> 0]
    /\ api = [j \in Jobs |-> None]
    /\ report = [j \in Jobs |-> None]
    /\ outbox = [j \in Jobs |-> <<>>]
    /\ visited = [j \in Jobs |-> <<>>]
    /\ slept = [j \in Jobs |-> FALSE]
    /\ skipped = [j \in Jobs |-> FALSE]
    /\ optout = [j \in Jobs |-> {}]

NoEngine ==
    /\ window = [tag |-> "none"]
    /\ result = [op |-> "none", value |-> None]
    /\ phase = "off"
    /\ IdlePool
    /\ IdleSession

Keys == {"current", "old"}

\* One firing at a time of the daily job over three registered tenants, each
\* with a blob of the current key or of an old one, subscribed or not.
InitFiring ==
    /\ \E key \in [Tenants -> Keys] :
         users_tbl = <<UserRow("A", Fernet(Token("A"), key["A"]), TRUE),
                       UserRow("B", Fernet(Token("B"), key["B"]), TRUE),
                       UserRow("C", Fernet(Token("C"), key["C"]), TRUE)>>
    /\ user_settings \in [Tenants -> BOOLEAN]
    /\ env = "any"
    /\ IdleDispatcher
    /\ NoEngine

NextFiring ==
    \/ Fire("daily_stats")
    \/ StartRun("daily_stats")
    \/ ProcessTenant("daily_stats")
    \/ SendNotice("daily_stats")
    \/ SendReport("daily_stats")
    \/ SleepDone("daily_stats")

Spec == InitFiring /\ [][NextFiring]_vars

\* The event loop runs a ready coroutine, and every awaited call returns or raises.
LiveFiring == Spec /\ WF_vars(StartRun("daily_stats"))
                   /\ WF_vars(ProcessTenant("daily_stats"))
                   /\ WF_vars(SendNotice("daily_stats"))
                   /\ WF_vars(SendReport("daily_stats"))
                   /\ WF_vars(SleepDone("daily_stats"))

\* The three jobs side by side in a calm environment, over two registered
\* users of whom B has not switched the notifications on.
InitSched ==
    /\ users_tbl = <<UserRow("A", Fernet(Token("A"), "current"), TRUE),
                     UserRow("B", Fernet(Token("B"), "current"), TRUE)>>
    /\ \E on \in BOOLEAN : user_settings = [t \in {"A", "B"} |-> t = "A" /\ on]
    /\ env = "calm"
    /\ IdleDispatcher
    /\ NoEngine

NextSched ==
    \/ \E j \in Jobs : Fire(j)
    \/ \E j \in Jobs : StartRun(j)
    \/ \E j \in Jobs : ProcessTenant(j)
    \/ \E j \in Jobs : SendNotice(j)
    \/ \E j \in Jobs : SendReport(j)
    \/ \E j \in Jobs : SleepDone(j)

SpecSched == InitSched /\ [][NextSched]_vars

\* The daily job beside the notification switch, over three registered users:
\* B may have no token, C may be deactivated.
InitSubs ==
    /\ \E blob \in {Fernet(Token("B"), "current"), NULL}, active \in BOOLEAN :
         users_tbl = <<UserRow("A", Fernet(Token("A"), "current"), TRUE),
                       UserRow("B", blob, TRUE),
                       UserRow("C", Fernet(Token("C"), "current"), active)>>
    /\ user_settings \in [Tenants -> BOOLEAN]
    /\ env = "any"
    /\ IdleDispatcher
    /\ NoEngine

NextSubs ==
    \/ Fire("daily_stats")
    \/ StartRun("daily_stats")
    \/ ProcessTenant("daily_stats")
    \/ SendNotice("daily_stats")
    \/ SendReport("daily_stats")
    \/ SleepDone("daily_stats")
    \/ \E t \in Tenants, enabled \in BOOLEAN : UpdateNotificationSetting(t, enabled)

SpecSubs == InitSubs /\ [][NextSubs]_vars

InitEngine ==
    /\ users_tbl = <<>>
    /\ user_settings = <<>>
    /\ env = "calm"
    /\ IdleDispatcher
    /\ window \in Windows
    /\ result = [op |-> "none", value |-> None]
    /\ phase = "ask"
    /\ IdlePool
    /\ IdleSession

NextEngine ==
    \/ CallSalesReport
    \/ CallRetailSalesReport
    \/ CallCombinedSalesReport
    \/ CallQuickReport
    \/ CallCalculateGrowth

SpecEngine == InitEngine /\ [][NextEngine]_vars

\* the six branches, each answering with sales or failing in its own way
PoolWindows ==
    {[tag |-> "quick",
      q |-> [b \in Branches |->
               IF b \in {"today_orders", "week_orders", "month_orders"}
               THEN o[b] ELSE r[b]]] :
        o \in [{"today_orders", "week_orders", "month_orders"} ->
                  {[orders |-> Ok(<<OrderRow(MaxDay, 300)>>)],
                   [orders |-> Ok(<<[NullSumOrder EXCEPT !.created = MaxDay]>>)]}],
        r \in [{"today_retail", "week_retail", "month_retail"} ->
                  {[demands |-> Ok(<<RetailRow(MaxDay, 100, "A")>>), returns |-> Ok(<<>>)],
                   [demands |-> Failing("timeout"), returns |-> Ok(<<>>)]}]}

InitPool ==
    /\ users_tbl = <<>>
    /\ user_settings = <<>>
    /\ env = "calm"
    /\ IdleDispatcher
    /\ window \in PoolWindows
    /\ result = [op |-> "none", value |-> None]
    /\ phase = "ask"
    /\ IdlePool
    /\ IdleSession

NextPool ==
    \/ Submit
    \/ \E b \in Branches : StartBranch(b)
    \/ \E b \in Branches : FinishBranch(b)
    \/ JoinNext
    \/ Compose
    \/ Unwind

SpecPool == InitPool /\ [][NextPool]_vars

InitTop ==
    /\ users_tbl = <<>>
    /\ user_settings = <<>>
    /\ env = "calm"
    /\ IdleDispatcher
    /\ window \in TopWindows \cup TopFaultWindows
    /\ result = [op |-> "none", value |-> None]
    /\ phase = "ask"
    /\ IdlePool
    /\ IdleSession

NextTop == CallTopProducts

SpecTop == InitTop /\ [][NextTop]_vars

\* one invocation of _make_request against every kind of answer
InitClient ==
    /\ users_tbl = <<>>
    /\ user_settings = <<>>
    /\ env = "calm"
    /\ IdleDispatcher
    /\ window \in RequestWindows
    /\ result = [op |-> "_make_request", value |-> None, response |-> None,
                 calls |-> 0]
    /\ phase = "ask"
    /\ IdlePool
    /\ IdleSession

NextClient ==
    \/ SendRequest
    \/ ReturnOutcome

SpecClient == InitClient /\ [][NextClient]_vars

\* one chat: its user registered with a token of the current key or of an old
\* one, or without a token, pressing report buttons and sending dates
InitMenu ==
    /\ \E blob \in {Fernet(Token(Chat), "current"), Fernet(Token(Chat), "old"), NULL} :
         users_tbl = <<UserRow(Chat, blob, TRUE)>>
    /\ user_settings = [t \in {Chat} |-> FALSE]
    /\ env = "calm"
    /\ IdleDispatcher
    /\ window \in MenuWindows
    /\ IdlePool
    /\ IdleSession
    /\ result = [op |-> "none", input |-> Absent, expected |-> NoType,
                 reply |-> Absent, fetch |-> Absent, value |-> None,
                 asked |-> NoType, seq |-> 0]
    /\ phase = "chat"

NextMenu ==
    \/ \E report_type \in ReportTypes : HandleReportMenu(report_type)
    \/ \E period_kind \in {"today", "week", "month", "custom"} :
          HandleDetailedPeriodSelection(period_kind)
    \/ \E user_input \in DateInputs : HandleDateInput(user_input)

SpecMenu == InitMenu /\ [][NextMenu]_vars

\* one chat in the API_TOKEN state of its registration (get_phone_number has
\* added its row and kept user_id and phone), or with the settings menu open
\* (registered with a token, or without a row)
InitAuth ==
    /\ \E start \in {"registering", "registered", "unknown"} :
         /\ users_tbl = IF start = "registering"
                        THEN <<UserRow("B", Fernet(Token("B"), "current"), TRUE),
                               UserRow(Chat, NULL, TRUE)>>
                        ELSE IF start = "registered"
                        THEN <<UserRow(Chat, Fernet(Token(Chat), "current"), TRUE),
                               UserRow("B", Fernet(Token("B"), "current"), TRUE)>>
                        ELSE <<UserRow("B", Fernet(Token("B"), "current"), TRUE)>>
         /\ user_data = IF start = "registering"
                        THEN [NoUserData EXCEPT !.user_id = [tag |-> "id"],
                                                !.phone = [tag |-> "phone"]]
                        ELSE NoUserData
         /\ phase = IF start = "registering" THEN "API_TOKEN" ELSE "END"
    /\ user_settings = [t \in Registered |-> FALSE]
    /\ env = "any"
    /\ IdleDispatcher
    /\ window = [tag |-> "none"]
    /\ IdlePool
    /\ result = [op |-> "none", input |-> Absent, token |-> Absent,
                 before |-> users_tbl, passed |-> Absent,
                 reply |-> "none", seq |-> 0]

NextAuth ==
    \/ \E message \in Messages, fernet_raises \in BOOLEAN, db_raises \in BOOLEAN :
          GetApiToken(message, fernet_raises, db_raises)
    \/ \E message \in Messages, fernet_raises \in BOOLEAN, db_raises \in BOOLEAN :
          ProcessTokenUpdate(message, fernet_raises, db_raises)
    \/ UpdateToken

SpecAuth == InitAuth /\ [][NextAuth]_vars

----------------------------------------------------------------------------
(* Properties of one firing of the daily job *)

Daily == "daily_stats"

\* the firing has read its subscriber list
ListRead == pc[Daily] \notin {"idle", "start"}

TenantAt(i) == users[Daily][i][1]
DecryptFails(i) == decrypt(users[Daily][i][2]) = EmptyStr
Failed(i) == visited[Daily][i].outcome \in {"decrypt_error", "exception"}
MessagesTo(t) == {k \in 1..Len(outbox[Daily]) : outbox[Daily][k].chat_id = t}
Seen == 1..Len(visited[Daily])

\* C1: in one firing every tenant whose credential fails to decrypt counts as
\* exactly one failure and gets no message, every other tenant of the list is
\* still attempted, and with A, B, C where only B fails to decrypt and A and C
\* are fetched and delivered the firing ends with 2 successes and 1 failure.
C1_DecryptFailureIsolated ==
    ListRead =>
      /\ Len(visited[Daily]) <= Len(users[Daily])
      /\ \A i \in Seen :
           /\ visited[Daily][i].user_id = TenantAt(i)
           /\ DecryptFails(i) =>
                /\ visited[Daily][i].outcome = "decrypt_error"
                /\ MessagesTo(TenantAt(i)) = {}
           /\ ~DecryptFails(i) => visited[Daily][i].outcome # "decrypt_error"
      /\ error_count[Daily] = Cardinality({i \in Seen : Failed(i)})
      /\ pc[Daily] = "done" =>
           /\ Len(visited[Daily]) = Len(users[Daily])
           /\ ( /\ [i \in 1..Len(users[Daily]) |-> TenantAt(i)] = <<"A", "B", "C">>
                /\ ~DecryptFails(1) /\ DecryptFails(2) /\ ~DecryptFails(3)
                /\ visited[Daily][1].outcome = "success"
                /\ visited[Daily][3].outcome = "success" )
              => success_count[Daily] = 2 /\ error_count[Daily] = 1

\* The firing over A, B, C is over: B's credential did not decrypt, A and C
\* have their messages.
C1_Witness ==
    /\ pc[Daily] = "done"
    /\ Len(users[Daily]) = 3 /\ Len(visited[Daily]) = 3
    /\ ~DecryptFails(1) /\ DecryptFails(2) /\ ~DecryptFails(3)
    /\ visited[Daily][1].outcome = "success"
    /\ visited[Daily][2].outcome = "decrypt_error"
    /\ visited[Daily][3].outcome = "success"
    /\ MessagesTo("A") # {} /\ MessagesTo("B") = {} /\ MessagesTo("C") # {}
    /\ success_count[Daily] = 2 /\ error_count[Daily] = 1

\* the tenant the loop stands at fails with an exception in this step
RaisesHere ==
    /\ pc[Daily] \in {"iter", "send_notice", "send_report"}
    /\ Len(visited'[Daily]) = idx[Daily]
    /\ visited'[Daily][idx[Daily]].outcome = "exception"

\* C2: an exception raised at any step of one tenant's iteration is caught in
\* that iteration: the failure count grows by one, the success count stays, and
\* the loop goes on to the next tenant of the list (or to its end after the
\* last); the coroutine is never left anywhere else.
C2_ExceptionCaughtPerTenant ==
    [][ /\ RaisesHere =>
            /\ error_count'[Daily] = error_count[Daily] + 1
            /\ success_count'[Daily] = success_count[Daily]
            /\ users'[Daily] = users[Daily]
            /\ IF idx[Daily] < Len(users[Daily])
               THEN pc'[Daily] = "iter" /\ idx'[Daily] = idx[Daily] + 1
               ELSE pc'[Daily] = "done"
        /\ pc'[Daily] \in {"idle", "start", "iter", "send_notice", "send_report",
                           "sleep", "done"}
      ]_vars

\* An exception for one tenant, and a later tenant of the same firing served.
C2_Witness ==
    /\ ListRead
    /\ \E i \in Seen, k \in Seen :
         /\ i < k
         /\ visited[Daily][i].outcome = "exception"
         /\ visited[Daily][k].outcome = "success"
         /\ MessagesTo(TenantAt(k)) # {}
    /\ error_count[Daily] >= 1

\* C3: for each job id at most one run is under way at any time: the job is
\* idle, then running, then idle again, and a firing that falls into a run of
\* the same job id starts no second run of it.
C3_OneRunPerJob ==
    \A j \in Jobs : instances[j] = IF Running(j) THEN 1 ELSE 0

\* A firing of the daily job was skipped while its earlier run is still in the
\* tenant loop, and the weekly job runs beside it.
C3_Witness ==
    /\ skipped["daily_stats"]
    /\ pc["daily_stats"] \in {"send_notice", "send_report", "sleep"}
    /\ instances["daily_stats"] = 1
    /\ Running("weekly_stats")

\* C4: a tenant whose upstream holds no record for the window gets the
\* "no data" notice and never the full report: every full report sent is a
\* report of at least one sale or order.
C4_NoDataGetsNotice ==
    ListRead =>
      \A k \in 1..Len(outbox[Daily]) :
          outbox[Daily][k].kind = "report" => outbox[Daily][k].text.combined_orders > 0

NoDuplicates(s) == \A i \in 1..Len(s), k \in 1..Len(s) : s[i] = s[k] => i = k
EveryTenantOnce ==
    ListRead =>
      /\ NoDuplicates([i \in 1..Len(users[Daily]) |-> TenantAt(i)])
      /\ Len(visited[Daily]) <= Len(users[Daily])
      /\ \A i \in Seen : visited[Daily][i].user_id = TenantAt(i)
      /\ \A t \in Tenants : Cardinality(MessagesTo(t)) <= 1
      /\ pc[Daily] = "done" =>
           /\ Len(visited[Daily]) = Len(users[Daily])
           /\ success_count[Daily] + error_count[Daily] = Len(users[Daily])

\* C5: within one firing each tenant of the list is processed exactly once, a
\* failed one is not tried again, and when every call returns or raises the
\* firing reaches the end of the list with successes + failures equal to the
\* number of tenants the registry returned.
C5_EachTenantOnceAndDone ==
    /\ []EveryTenantOnce
    /\ (pc[Daily] = "start") ~> (pc[Daily] = "done")

\* A firing over three tenants has ended with both successes and failures.
C5_Witness ==
    /\ pc[Daily] = "done"
    /\ Len(users[Daily]) = 3
    /\ success_count[Daily] >= 1 /\ error_count[Daily] >= 1
    /\ success_count[Daily] + error_count[Daily] = 3

\* C6: between two consecutive deliveries of one firing the pacing delay is
\* applied: every message after the first goes out after a sleep that followed
\* the message before it.
C6_DelayBetweenDeliveries ==
    ListRead =>
      \A k \in 2..Len(outbox[Daily]) : outbox[Daily][k].after_sleep

StoredRow(t) == CHOOSE row \in Range(users_tbl) : row.telegram_id = t

\* C7: a firing delivers only to tenants of the list it read, and those have a
\* stored credential, an active account and notifications enabled; a tenant who
\* had notifications off when the firing started and has not enabled them
\* since gets no message of it.
C7_OnlySubscribersServed ==
    ListRead =>
      /\ \A k \in 1..Len(outbox[Daily]) :
           \E i \in 1..Len(users[Daily]) : TenantAt(i) = outbox[Daily][k].chat_id
      /\ \A i \in 1..Len(users[Daily]) :
           /\ TenantAt(i) \in Registered
           /\ StoredRow(TenantAt(i)).api_token_encrypted # NULL
           /\ StoredRow(TenantAt(i)).api_token_encrypted = users[Daily][i][2]
           /\ StoredRow(TenantAt(i)).is_active
           /\ TenantAt(i) \notin optout[Daily]

\* A firing has served one tenant and left out another who had switched the
\* notifications off before it started.
C7_Witness ==
    /\ pc[Daily] = "done"
    /\ optout[Daily] # {}
    /\ \A t \in optout[Daily] : MessagesTo(t) = {}
    /\ \E t \in Tenants \ optout[Daily] : MessagesTo(t) # {}

\* what the account of tenant t can answer to a fetch of the daily period
OwnReports(t) ==
    {get_combined_sales_report(
         Account(Token(t), case, get_period_dates(period_type(Daily))),
         get_period_dates(period_type(Daily))[1],
         get_period_dates(period_type(Daily))[2]) : case \in Cases}

\* C8: the report delivered to a tenant is fetched by a client built from the
\* credential decrypted from that tenant's own blob: the client at work holds
\* the token of the tenant the loop stands at, and every report in the outbox
\* is a report of the recipient's own account.
C8_TenantIsolation ==
    ListRead =>
      /\ pc[Daily] \in {"send_notice", "send_report", "sleep"} =>
           /\ api[Daily] = api_factory(decrypt(encrypted_token(Daily)))
           /\ api[Daily].api_token = Token(user_id(Daily))
      /\ pc[Daily] = "send_report" => report[Daily] \in OwnReports(user_id(Daily))
      /\ \A k \in 1..Len(outbox[Daily]) :
           outbox[Daily][k].kind = "report" =>
               outbox[Daily][k].text \in OwnReports(outbox[Daily][k].chat_id)

\* Two tenants of one firing have each got the report of their own account.
C8_Witness ==
    /\ ListRead
    /\ \E k \in 1..Len(outbox[Daily]), m \in 1..Len(outbox[Daily]) :
         /\ outbox[Daily][k].kind = "report" /\ outbox[Daily][m].kind = "report"
         /\ outbox[Daily][k].chat_id # outbox[Daily][m].chat_id
         /\ outbox[Daily][k].text.combined_total > 0
         /\ outbox[Daily][k].text # outbox[Daily][m].text

----------------------------------------------------------------------------
(* Properties of the report engine *)

Got(op) == phase = "got" /\ result.op = op /\ result.value \notin {None, Raised}
InWindow(recs) ==
    SelectSeq(recs, LAMBDA order : InPeriod(order, window.date_from, window.date_to))

\* C9: get_sales_report and get_retail_sales_report cover every upstream
\* record of the window, also when there are more of them than one page holds:
\* the report's count and total are those of all the records.
C9_EveryPageCounted ==
    /\ Got("get_sales_report") =>
         /\ result.value.total_orders = Len(InWindow(window.orders.recs))
         /\ result.value.total_sales = SumOver(InWindow(window.orders.recs), RowSum)
    /\ Got("get_retail_sales_report") =>
         /\ result.value.total_orders = Len(window.retail.recs)
         /\ result.value.total_sales = SumOver(window.retail.recs, RowSum)

BranchFailed(r) == r = None \/ r = Raised
ZeroIfFailed(r) == IF BranchFailed(r) THEN None ELSE r

\* C10: when a branch of get_quick_report fails, by returning no report or by
\* raising, the quick report is still produced, with zeros for that branch and
\* the values of the other branches as they are.
C10_FailedBranchZeroed ==
    (phase = "got" /\ result.op = "get_quick_report") =>
        result.value =
            QuickOf([b \in Branches |->
                       ZeroIfFailed(BranchResult(window.q[b], b, BranchPeriod(b)))])

\* the rows the one request of a channel brings
Fetched(endpoint) ==
    IF make_request(endpoint, limit) = None THEN <<>>
    ELSE make_request(endpoint, limit).rows
Dated(day) == day = 0 \/ (window.date_from <= day /\ day <= window.date_to)

\* C15: in both channels a fetched record dated outside [date_from, date_to]
\* adds nothing to the report and a fetched record without a date is counted:
\* count and total are those of the fetched records that are undated or dated
\* in the window.
C15_OutsideWindowDropped ==
    /\ Got("get_sales_report") =>
         /\ result.value.total_orders =
               Len(SelectSeq(Fetched(window.orders), LAMBDA o : Dated(o.created)))
         /\ result.value.total_sales =
               SumOver(SelectSeq(Fetched(window.orders), LAMBDA o : Dated(o.created)),
                       RowSum)
    /\ Got("get_retail_sales_report") =>
         /\ result.value.total_orders =
               Len(SelectSeq(Fetched(window.retail), LAMBDA d : Dated(d.moment)))
         /\ result.value.total_sales =
               SumOver(SelectSeq(Fetched(window.retail), LAMBDA d : Dated(d.moment)),
                       RowSum)

Magnitude(r) == IF r.sum < 0 THEN -r.sum ELSE r.sum
Flipped(endpoint) ==
    [endpoint EXCEPT !.recs = [i \in 1..Len(endpoint.recs) |->
                                 [endpoint.recs[i] EXCEPT !.sum = -endpoint.recs[i].sum]]]

\* C16: returns_sum is the sum of the magnitudes of the returns and never
\* negative, the report does not depend on the sign upstream gives a return,
\* and total_sales is the gross sum of the sales; a sale of 100 and a return
\* of 40 in one store give total_sales 100, returns_sum 40 and the store's
\* share taken of the net sales 60.
C16_ReturnsByMagnitude ==
    Got("get_retail_sales_report") =>
      /\ result.value.returns_sum = SumOver(Fetched(window.returns), Magnitude)
      /\ result.value.returns_sum >= 0
      /\ result.value.total_sales = SumOver(Fetched(window.retail), RowSum)
      /\ result.value = get_retail_sales_report(window.retail, Flipped(window.returns),
                                                window.date_from, window.date_to)
      /\ ( /\ Len(Fetched(window.retail)) = 1 /\ Len(Fetched(window.returns)) = 1
           /\ Fetched(window.retail)[1].sum = 100
           /\ Magnitude(Fetched(window.returns)[1]) = 40
           /\ Fetched(window.retail)[1].store = Fetched(window.returns)[1].store )
         => /\ result.value.total_sales = 100
            /\ result.value.returns_sum = 40
            /\ result.value.retail_points =
                  {[name |-> Fetched(window.retail)[1].store, sales |-> 60,
                    share |-> [num |-> 60 * 100, den |-> 60]]}

\* One sale of 100 and one return that upstream signs negative, same store.
C16_Witness ==
    /\ Got("get_retail_sales_report")
    /\ Len(Fetched(window.retail)) = 1 /\ Len(Fetched(window.returns)) = 1
    /\ Fetched(window.retail)[1].sum = 100 /\ Fetched(window.returns)[1].sum = -40
    /\ Fetched(window.retail)[1].store = Fetched(window.returns)[1].store
    /\ result.value.total_sales = 100 /\ result.value.returns_sum = 40

NetOfStore(name) ==
    LET Sold(d) == IF d.store = name THEN d.sum ELSE 0
        Back(r) == IF r.store = name THEN Magnitude(r) ELSE 0
    IN  SumOver(Fetched(window.retail), Sold) - SumOver(Fetched(window.returns), Back)
NetSales == result.value.total_sales - result.value.returns_sum

\* C17: every entry of retail_points has a net amount above zero, the store's
\* sales minus the store's returns, and a share of net / (total_sales -
\* returns_sum) * 100 when the net sales are positive and 0 otherwise; no
\* store with a net amount of zero or less is listed.
C17_RetailPointsNet ==
    Got("get_retail_sales_report") =>
      \A e \in result.value.retail_points :
          /\ e.sales = NetOfStore(e.name)
          /\ e.sales > 0
          /\ e.share = IF NetSales > 0
                       THEN [num |-> e.sales * 100, den |-> NetSales]
                       ELSE [num |-> 0, den |-> 1]

\* Store A is listed with a share of the net sales, store B, whose returns
\* match its sales or exceed them, is not.
C17_Witness ==
    /\ Got("get_retail_sales_report")
    /\ NetOfStore("B") <= 0
    /\ \E d \in Range(Fetched(window.returns)) : d.store = "B"
    /\ \E e \in result.value.retail_points :
           e.name = "A" /\ e.share.den = NetSales /\ NetSales < result.value.total_sales
    /\ \A e \in result.value.retail_points : e.name # "B"

\* C18: combined_total is retail.total_sales + orders.total_sales; when it is
\* positive the two shares add up to 100; when it is 0 both shares are 0 and
\* nothing is divided by zero.
C18_SharesOfCombined ==
    Got("get_combined_sales_report") =>
      /\ result.value.combined_total =
            result.value.retail.total_sales + result.value.orders.total_sales
      /\ result.value.retail_share.den # 0 /\ result.value.orders_share.den # 0
      /\ result.value.combined_total > 0 =>
           /\ result.value.retail_share.den = result.value.orders_share.den
           /\ result.value.retail_share.num + result.value.orders_share.num
                 = 100 * result.value.retail_share.den
      /\ result.value.combined_total = 0 =>
           /\ result.value.retail_share = [num |-> 0, den |-> 1]
           /\ result.value.orders_share = [num |-> 0, den |-> 1]

\* A combined report of both channels with sales in each.
C18_Witness ==
    /\ Got("get_combined_sales_report")
    /\ result.value.retail.total_sales > 0 /\ result.value.orders.total_sales > 0
    /\ result.value.retail_share.num > 0 /\ result.value.orders_share.num > 0

\* C19: calculate_growth never raises; against a previous of 0 the percent is
\* 100 when current is positive and 0 otherwise; against any other previous
\* the change is current - previous and the percent is change / |previous| *
\* 100; the direction is "up" exactly when the percent is above 0, "down"
\* exactly when it is below 0 and "same" exactly when it is 0.
C19_GrowthDefined ==
    (phase = "got" /\ result.op = "calculate_growth") =>
      /\ result.value \notin {None, Raised}
      /\ window.previous = 0 =>
           result.value.percent = IF window.current > 0 THEN [num |-> 100, den |-> 1]
                                  ELSE [num |-> 0, den |-> 1]
      /\ window.previous # 0 =>
           /\ result.value.change = window.current - window.previous
           /\ result.value.percent =
                 [num |-> (window.current - window.previous) * 100,
                  den |-> IF window.previous < 0 THEN -window.previous
                          ELSE window.previous]
      /\ result.value.percent.den > 0
      /\ result.value.direction = "up" <=> result.value.percent.num > 0
      /\ result.value.direction = "down" <=> result.value.percent.num < 0
      /\ result.value.direction = "same" <=> result.value.percent.num = 0

\* A total that rose from a negative previous one: the percent is positive.
C19_Witness ==
    /\ phase = "got" /\ result.op = "calculate_growth"
    /\ window.previous < 0 /\ window.current > 0
    /\ result.value.direction = "up"
    /\ result.value.percent.num > 0

\* C20: when the upstream answers with zero records, get_sales_report and
\* get_retail_sales_report each return a report with total 0, count 0,
\* average 0 and quantity 0: no missing report and no exception.
C20_EmptyWindowZeroReport ==
    /\ ( /\ phase = "got" /\ result.op = "get_sales_report"
         /\ window.orders.fault = "none" /\ Len(window.orders.recs) = 0 )
       => /\ result.value \notin {None, Raised}
          /\ result.value.total_sales = 0 /\ result.value.total_orders = 0
          /\ result.value.average_order = [num |-> 0, den |-> 1]
          /\ result.value.products_count = 0
    /\ ( /\ phase = "got" /\ result.op = "get_retail_sales_report"
         /\ window.retail.fault = "none" /\ Len(window.retail.recs) = 0
         /\ \A i \in 1..Len(window.returns.recs) : ~window.returns.recs[i].sum_null )
       => /\ result.value \notin {None, Raised}
          /\ result.value.total_sales = 0 /\ result.value.total_orders = 0
          /\ result.value.average_order = [num |-> 0, den |-> 1]
          /\ result.value.products_count = 0

\* The orders of an empty window asked and answered with the zero report.
C20_Witness ==
    /\ phase = "got" /\ result.op = "get_sales_report"
    /\ window.orders.fault = "none" /\ Len(window.orders.recs) = 0
    /\ result.value.total_orders = 0


----------------------------------------------------------------------------
(* Properties of the quick report on its worker pool *)

\* C11: the QuickReport is composed only after all six branch fetches have
\* completed, and it is the report the branches' own results determine,
\* whatever the order in which the pool starts and completes them.
C11_ComposedAfterJoin ==
    (phase = "got" /\ result.op = "get_quick_report") =>
        /\ \A b \in Branches : futures[b].state = "done"
        /\ result.value = get_quick_report(window.q)

\* A quick report with figures of every period has been composed from six
\* completed branches.
C11_Witness ==
    /\ phase = "got" /\ result.op = "get_quick_report"
    /\ result.value # None
    /\ result.value.today_data.order_sales > 0
    /\ result.value.week_data.retail_sales > 0
    /\ result.value.month_data.retail_sales = 0
    /\ joined = Len(BranchOrder)

----------------------------------------------------------------------------
(* Properties of the top-product ranking *)

GotTop == phase = "got" /\ result.op = "get_top_products"
LineItems == ChannelItems(window.orders) \o ChannelItems(window.retail)
HandlesAsked == {LineItems[i].assortment.href :
                    i \in {k \in 1..Len(LineItems) :
                             /\ ~LineItems[k].assortment.has_name
                             /\ LineItems[k].assortment.has_href}}

\* C12: during one get_top_products run at most one name fetch is issued per
\* distinct href, whatever the fetch answers: no href is fetched twice and the
\* fetches are no more than the distinct hrefs.
C12_OneFetchPerHandle ==
    GotTop =>
      /\ NoDuplicates(result.fetched)
      /\ Len(result.fetched) <= Cardinality(HandlesAsked)

\* the name a line item should go under
NameFor(pos) ==
    IF pos.assortment.has_name THEN pos.assortment.name
    ELSE IF ~pos.assortment.has_href THEN "Bez nazvaniya"
    ELSE IF /\ window.hrefs[pos.assortment.href].fault = "none"
            /\ window.hrefs[pos.assortment.href].has_name
    THEN window.hrefs[pos.assortment.href].name
    ELSE "Bez nazvaniya"

\* no inline name and no handle, or a name fetch that fails
Unresolvable(pos) ==
    /\ ~pos.assortment.has_name
    /\ \/ ~pos.assortment.has_href
       \/ window.hrefs[pos.assortment.href].fault # "none"

QuantityUnder(name) ==
    LET Q(pos) == IF NameFor(pos) = name THEN pos.quantity ELSE 0
    IN  SumOver(LineItems, Q)
AmountUnder(name) ==
    LET A(pos) == IF NameFor(pos) = name THEN pos.quantity * pos.price ELSE 0
    IN  SumOver(LineItems, A)
NamesSold == {NameFor(LineItems[i]) : i \in 1..Len(LineItems)}
Ranked(name) == \E i \in 1..Len(result.value.items) : result.value.items[i].name = name

\* C13: when a line item's name cannot be resolved the run still returns a
\* ranking, and the item's quantity and amount are counted under the sentinel
\* name: the sentinel entry of the ranking carries the sums of all such items,
\* and it is in the ranking when its quantity is positive and the limit does
\* not cut it off.
C13_UnresolvedUnderSentinel ==
    (GotTop /\ \E i \in 1..Len(LineItems) : Unresolvable(LineItems[i])) =>
      /\ result.value # None
      /\ \A i \in 1..Len(result.value.items) :
           result.value.items[i].name = "Bez nazvaniya" =>
               /\ result.value.items[i].quantity = QuantityUnder("Bez nazvaniya")
               /\ result.value.items[i].amount = AmountUnder("Bez nazvaniya")
      /\ (QuantityUnder("Bez nazvaniya") > 0 /\ Cardinality(NamesSold) <= window.n)
            => Ranked("Bez nazvaniya")

\* A run whose name fetch failed has returned a ranking with the item without
\* any handle and the item of the failed fetch together under the sentinel.
C13_Witness ==
    /\ GotTop
    /\ window.hrefs["h1"].fault = "500"
    /\ Len(result.fetched) >= 1
    /\ result.value # None
    /\ \E i \in 1..Len(result.value.items) :
         /\ result.value.items[i].name = "Bez nazvaniya"
         /\ result.value.items[i].quantity = 3
         /\ result.value.items[i].amount = 130

\* C14: get_top_products(limit=N) returns at most N entries, in descending
\* order of (amount, quantity), none with a quantity that is not positive, each
\* with the sums of all line items of both channels under its name; for A
\* (3, 300) and B (10, 100) the top 1 is [A] and the top 2 is [A, B].
C14_RankedByAmount ==
    (GotTop /\ result.value # None) =>
      /\ Len(result.value.items) <= window.n
      /\ \A i \in 1..Len(result.value.items), k \in 1..Len(result.value.items) :
           i < k =>
             \/ result.value.items[i].amount > result.value.items[k].amount
             \/ /\ result.value.items[i].amount = result.value.items[k].amount
                /\ result.value.items[i].quantity >= result.value.items[k].quantity
      /\ \A i \in 1..Len(result.value.items) :
           /\ result.value.items[i].quantity > 0
           /\ result.value.items[i].quantity = QuantityUnder(result.value.items[i].name)
           /\ result.value.items[i].amount = AmountUnder(result.value.items[i].name)
      /\ Range(LineItems) = {Pos(Named("A"), 3, 100), Pos(Named("B"), 10, 10)}
            /\ Len(LineItems) = 2
         => [i \in 1..Len(result.value.items) |-> result.value.items[i].name]
               = IF window.n = 1 THEN <<"A">> ELSE <<"A", "B">>

\* The top 2 of A (3, 300) sold by order and B (10, 100) sold at retail.
C14_Witness ==
    /\ GotTop
    /\ window.n = 2
    /\ ChannelItems(window.orders) = <<Pos(Named("B"), 10, 10)>>
    /\ ChannelItems(window.retail) = <<Pos(Named("A"), 3, 100)>>
    /\ result.value # None
    /\ result.value.items = <<[name |-> "A", quantity |-> 3, amount |-> 300],
                              [name |-> "B", quantity |-> 10, amount |-> 100]>>

----------------------------------------------------------------------------
(* Properties of the reduction of records into a report *)

\* the records of s at the positions I, in their order, and s back to front
Pick(s, I) ==
    LET Taken[i \in 0..Len(s)] ==
            IF i = 0 THEN <<>>
            ELSE IF i \in I THEN Append(Taken[i - 1], s[i]) ELSE Taken[i - 1]
    IN  Taken[Len(s)]
Reverse(s) == [i \in 1..Len(s) |-> s[Len(s) + 1 - i]]

\* total, count and quantity of whole are the sums of those of the two parts,
\* and its average is total / count of the sums
SumOfParts(whole, a, b) ==
    /\ whole.total_sales = a.total_sales + b.total_sales
    /\ whole.total_orders = a.total_orders + b.total_orders
    /\ whole.products_count = a.products_count + b.products_count
    /\ whole.average_order =
          IF a.total_orders + b.total_orders > 0
          THEN Frac(a.total_sales + b.total_sales, a.total_orders + b.total_orders)
          ELSE Zero

\* C21: for every split of a window's fetched records (orders; retail demands
\* and retail returns) into two parts, the report over all of them has total,
\* count and quantity equal to the sums over the reports of the parts, with
\* the average recomputed, and the report over the records in the opposite
\* order is the same report.
C21_ReductionAdditive ==
    /\ (Got("get_sales_report") /\ Len(Fetched(window.orders)) <= MaxRows) =>
         /\ \A I \in SUBSET (1..Len(Fetched(window.orders))) :
               SumOfParts(result.value,
                   OrdersReport(InWindow(Pick(Fetched(window.orders), I))),
                   OrdersReport(InWindow(Pick(Fetched(window.orders),
                       (1..Len(Fetched(window.orders))) \ I))))
         /\ result.value = OrdersReport(InWindow(Reverse(Fetched(window.orders))))
    /\ (Got("get_retail_sales_report") /\ Len(Fetched(window.retail)) <= MaxRows
           /\ Len(Fetched(window.returns)) <= MaxRows) =>
         /\ \A I \in SUBSET (1..Len(Fetched(window.retail))),
               J \in SUBSET (1..Len(Fetched(window.returns))) :
               SumOfParts(result.value,
                   RetailReduce(Pick(Fetched(window.retail), I),
                                Pick(Fetched(window.returns), J)),
                   RetailReduce(Pick(Fetched(window.retail),
                                     (1..Len(Fetched(window.retail))) \ I),
                                Pick(Fetched(window.returns),
                                     (1..Len(Fetched(window.returns))) \ J)))
         /\ result.value = RetailReduce(Reverse(Fetched(window.retail)),
                                        Reverse(Fetched(window.returns)))

----------------------------------------------------------------------------
(* Properties of the counters of one firing *)

\* the tenants of the firing counted under success_count, under error_count
CountedSuccess == {i \in Seen : visited[Daily][i].outcome = "success"}
CountedFailure == {i \in Seen : Failed(i)}

\* C26: when a firing has ended, success_count counts exactly the tenants a
\* message (report or no-data notice) was delivered to in this firing, and no
\* tenant counted under error_count has received a message.
C26_SuccessIffDelivered ==
    pc[Daily] = "done" =>
      /\ success_count[Daily] = Cardinality(CountedSuccess)
      /\ error_count[Daily] = Cardinality(CountedFailure)
      /\ \A i \in Seen :
           /\ i \in CountedSuccess <=> MessagesTo(visited[Daily][i].user_id) # {}
           /\ i \in CountedFailure => MessagesTo(visited[Daily][i].user_id) = {}

----------------------------------------------------------------------------
(* Properties of the length of the top-product ranking *)

\* the products whose accumulated quantity is positive
PositiveNames == {name \in NamesSold : QuantityUnder(name) > 0}
Outranks(a, b) ==
    \/ AmountUnder(a) > AmountUnder(b)
    \/ AmountUnder(a) = AmountUnder(b) /\ QuantityUnder(a) > QuantityUnder(b)

\* C28: when at least N products have a positive accumulated quantity,
\* get_top_products(limit=N) returns exactly N entries, all of them products
\* of positive quantity, and no product of positive quantity left out
\* outranks by (amount, quantity) one that is in.
C28_TopNOfPositive ==
    (GotTop /\ Cardinality(PositiveNames) >= window.n) =>
      /\ result.value # None
      /\ Len(result.value.items) = window.n
      /\ \A i \in 1..Len(result.value.items) :
           result.value.items[i].name \in PositiveNames
      /\ \A name \in PositiveNames :
           ~Ranked(name) =>
              \A i \in 1..Len(result.value.items) :
                  ~Outranks(name, result.value.items[i].name)

----------------------------------------------------------------------------
(* Properties of the shares of the retail report *)

\* the sum of the shares of a set of retail_points entries, as a fraction
RECURSIVE SharesTotal(_)
SharesTotal(points) ==
    IF points = {} THEN Zero
    ELSE LET p == CHOOSE q \in points : TRUE
             rest == SharesTotal(points \ {p})
         IN  Frac(p.share.num * rest.den + rest.num * p.share.den,
                  p.share.den * rest.den)
AtMost100(f) == f.den > 0 /\ f.num <= 100 * f.den

\* C29: in every retail report each retail_points share is at least 0 and at
\* most 100, and the shares of the listed stores sum to at most 100.
C29_SharesWithin100 ==
    Got("get_retail_sales_report") =>
      /\ \A p \in result.value.retail_points :
           ~Negative(p.share) /\ AtMost100(p.share)
      /\ AtMost100(SharesTotal(result.value.retail_points))

----------------------------------------------------------------------------
(* Properties of the upstream client *)

Returned == phase = "got" /\ result.op = "_make_request"

\* C22: one invocation of _make_request issues exactly one network call, and
\* a call that fails (401, 400, another status, timeout, connection error, any
\* other exception) gives the caller None: no exception leaves the method.
C22_OneCallNoRaise ==
    /\ (phase = "sent" /\ result.op = "_make_request") => result.calls = 1
    /\ Returned =>
         /\ result.calls = 1
         /\ result.value # Raised
         /\ window.endpoint.fault # "none" => result.value = None
         /\ window.endpoint.fault = "none" =>
               /\ result.value # None
               /\ result.value.rows = window.endpoint.recs

\* An invocation whose call timed out has returned None after one call.
C22_Witness ==
    /\ Returned
    /\ window.endpoint.fault = "timeout"
    /\ result.response.status = 0
    /\ result.calls = 1
    /\ result.value = None

\* the classes of failure the caller is to tell apart
FaultClass(fault) ==
    CASE fault = "401" -> "invalid credential"
      [] fault = "400" -> "malformed query"
      [] OTHER -> "transient"

\* C23: the outcome of a failed call tells the caller its class: outcomes of
\* failures of different classes (invalid credential, malformed query,
\* transient) are different values.
C23_TypedOutcome ==
    (Returned /\ window.endpoint.fault # "none") =>
      \A other \in RequestFaults \ {"none"} :
          FaultClass(other) # FaultClass(window.endpoint.fault)
             => make_request(Failing(other), limit) # result.value

----------------------------------------------------------------------------
(* Properties of the interactive report handlers *)

Fetched_Report == phase = "chat" /\ result.fetch # Absent
UpstreamDown ==
    /\ window.orders.fault # "none"
    /\ window.retail.fault # "none"
    /\ window.returns.fault # "none"
EmptyUpstream ==
    [tag |-> "menu", orders |-> Ok(<<>>), retail |-> Ok(<<>>), returns |-> Ok(<<>>)]

\* C24: for each of the three report types, a window whose upstream calls fail
\* gives the handler the outcome that a window without records gives, and the
\* user is sent the same reply.
C24_NoDataAsFailure ==
    (Fetched_Report /\ UpstreamDown) =>
      /\ result.value =
            FetchReport(result.fetch.report_type, EmptyUpstream,
                        result.fetch.date_from, result.fetch.date_to)
      /\ result.reply =
            ReplyOf(ReportText(result.fetch.report_type,
                        FetchReport(result.fetch.report_type, EmptyUpstream,
                                    result.fetch.date_from, result.fetch.date_to)))

\* C27: format_combined_report raises for no combined report that
\* get_combined_sales_report returns: whenever the handler obtained a combined
\* report, also one with combined_orders = 0, the user is sent the rendered
\* report and not the error line.
C27_CombinedRendered ==
    (Fetched_Report /\ result.fetch.report_type = "combined_report"
        /\ result.value \notin {None, Raised}) =>
      /\ format_combined_report(result.value) # Raised
      /\ result.reply.kind = "report_text"

DateHandled == phase = "chat" /\ result.op = "_handle_date_input"

\* C30: a date message fetches a report only when a custom period was awaited
\* and the dates are valid, and then the report of the type the period was
\* asked for, over the dates of the message; valid dates clear the
\* expectation; a date message that finds no expectation fetches nothing and
\* shows the main menu; invalid dates leave the expectation as it was and
\* fetch nothing.
C30_DateInputGated ==
    DateHandled =>
      /\ result.fetch # Absent =>
           /\ result.expected # NoType
           /\ ValidDate(result.input)
           /\ result.fetch.report_type = result.asked
           /\ result.fetch.date_from <= result.fetch.date_to
           /\ {result.fetch.date_from, result.fetch.date_to} = Range(result.input)
      /\ result.expected = NoType =>
           /\ result.fetch = Absent
           /\ result.reply.kind = "main_menu"
           /\ user_data.expecting_custom_period_for = NoType
      /\ (result.expected # NoType /\ ValidDate(result.input)) =>
           user_data.expecting_custom_period_for = NoType
      /\ (result.expected # NoType /\ ~ValidDate(result.input)) =>
           /\ result.fetch = Absent
           /\ result.reply.kind = "invalid_date"
           /\ user_data.expecting_custom_period_for = result.expected

\* The retail report was asked for a custom period, and the dates sent in
\* reverse order have fetched it and used the expectation up.
C30_Witness ==
    /\ DateHandled
    /\ result.input = <<MaxDay, 1>>
    /\ result.expected = "retail_sales"
    /\ result.fetch # Absent
    /\ result.fetch.report_type = "retail_sales"
    /\ result.fetch.date_from = 1 /\ result.fetch.date_to = MaxDay
    /\ user_data.expecting_custom_period_for = NoType

----------------------------------------------------------------------------
(* Properties of the registration and token update handlers *)

AuthOps == {"get_api_token", "process_token_update"}
TokenOf(tbl, telegram_id) ==
    {tbl[i].api_token_encrypted : i \in {k \in 1..Len(tbl) : tbl[k].telegram_id = telegram_id}}

\* C25: what get_api_token and process_token_update persist as the user's
\* API token is the ciphertext of the entered token and never the entered
\* token itself, whether or not the encryption failed; a token shorter
\* than 20 characters is rejected and nothing is persisted.
C25_OnlyCiphertextStored ==
    result.op \in AuthOps =>
        /\ result.token.len < MinTokenLen =>
              /\ result.reply = "too_short"
              /\ users_tbl = result.before
        /\ result.token \notin TokenOf(users_tbl, Chat)
        /\ users_tbl # result.before =>
              TokenOf(users_tbl, Chat) = {Fernet(result.token, "current")}
====
